---- MODULE Spec2Model ----
(***************************************************************************)
(* Verification model of btclib: ECDSA signing, verification, public key   *)
(* recovery and nonce-reuse key cracking (btclib/dsa.py), and the          *)
(* satoshi/BTC amount conversions (btclib/amount.py).                      *)
(*                                                                         *)
(* The library is a set of pure functions.  Each function is an operator   *)
(* computed the way the code computes it; a call that raises yields a      *)
(* record naming the exception.  The state machines draw the arguments of  *)
(* the calls from small sets and record the last call and its result.      *)
(***************************************************************************)
EXTENDS Integers, Sequences, FiniteSets, TLC

(***************************************************************************)
(* Results of calls: a value, or the exception raised.                     *)
(***************************************************************************)
Ok(v) == [ok |-> TRUE, val |-> v, err |-> "", msg |-> ""]
Raise(kind, text) == [ok |-> FALSE, val |-> <<>>, err |-> kind, msg |-> text]

BTClibValueError == "BTClibValueError"
BTClibRuntimeError == "BTClibRuntimeError"
BTClibTypeError == "BTClibTypeError"
AssertionError == "AssertionError"
TypeError == "TypeError"
ValueError == "ValueError"
InvalidOperation == "decimal.InvalidOperation"

\* F applied to the value of v, which is computed once
Let(v, F(_)) == CHOOSE res \in {F(x) : x \in {v}} : TRUE

\* an absent optional argument; a present one is <<value>>
None == <<>>

(***************************************************************************)
(* Bounds of the model.                                                    *)
(***************************************************************************)
\* hf().digest_size of the hash function in use, in bytes
HashLen == 1
\* Significant bits of the float that ec.n / 2 evaluates to.  A CPython
\* float has 53 of them, the order of secp256k1 has 256 bits; the model
\* scales both down, so that an order can exceed the significand.
FloatMantDig == 3

(***************************************************************************)
(* Curves: the low cardinality curves passed as the ec argument.  ec13_11  *)
(* has prime order 11 over the field of 13 elements; ec11_7_h2 has 14      *)
(* points over the field of 11 elements, G of prime order 7 (cofactor 2),  *)
(* and a point of order 2.                                                 *)
(***************************************************************************)
Curve(p, a, b, G, n, h) ==
    [p |-> p, a |-> a, b |-> b, G |-> G, n |-> n, cofactor |-> h]

ec13_11 == Curve(13, 7, 6, <<1, 1>>, 11, 1)
ec11_7_h2 == Curve(11, 1, 1, <<0, 1>>, 7, 2)

Curves == {ec13_11, ec11_7_h2}

bit_length(i) == CHOOSE L \in 0..30 : 2 ^ L > i /\ (L = 0 \/ 2 ^ (L - 1) <= i)

nlen(ec) == bit_length(ec.n)

pow(b, e) == b ^ e

(***************************************************************************)
(* Number theory (btclib/numbertheory.py).                                 *)
(***************************************************************************)
\* f as an explicit table: @@ evaluates every entry of f once
Table(f) == f @@ <<>>

\* the moduli in use: the field and group orders of the curves
Moduli == {e.p : e \in Curves} \cup {e.n : e \in Curves}

\* for each modulus m and each residue a, the x in [1, m-1] with
\* a*x = 1 (mod m), or 0 when there is none
InvTable ==
    Table([m \in Moduli |->
        Table([a \in 0..(m - 1) |->
            IF \E x \in 1..(m - 1) : (a * x) % m = 1
            THEN CHOOSE x \in 1..(m - 1) : (a * x) % m = 1
            ELSE 0])])

\* whether a has an inverse modulo m
coprime(a, m) == InvTable[m][a % m] # 0

\* the unique x in [1, m-1] with a*x = 1 (mod m); the code raises a
\* Runtime error when there is none, which callers test with coprime
mod_inv(a, m) == InvTable[m][a % m]

(***************************************************************************)
(* Curve arithmetic (btclib/curve.py, btclib/curvegroup.py).  A Jacobian   *)
(* point is <<X, Y, Z>>, infinity when Z = 0; affine infinity is INF.      *)
(***************************************************************************)
INF == <<-1, -1>>
INFJ == <<0, 1, 0>>

_jac_from_aff(Q) == IF Q = INF THEN INFJ ELSE <<Q[1], Q[2], 1>>

_aff_from_jac(QJ, ec) ==
    IF QJ[3] = 0 THEN INF
    ELSE LET Z2 == (QJ[3] * QJ[3]) % ec.p
             Z3 == (Z2 * QJ[3]) % ec.p
         IN  <<(QJ[1] * mod_inv(Z2, ec.p)) % ec.p,
               (QJ[2] * mod_inv(Z3, ec.p)) % ec.p>>

\* y^2 = x^3 + a*x + b (mod p)
_y2(x, ec) == (x * x * x + ec.a * x + ec.b) % ec.p

is_on_curve(Q, ec) ==
    /\ Q \in (0..(ec.p - 1)) \X (0..(ec.p - 1))
    /\ (Q[2] * Q[2]) % ec.p = _y2(Q[1], ec)

\* affine addition, INF the neutral element
_add_aff(Q, R, ec) ==
    IF Q = INF THEN R
    ELSE IF R = INF THEN Q
    ELSE IF Q[1] = R[1] /\ (Q[2] + R[2]) % ec.p = 0 THEN INF
    ELSE LET lam == IF Q[1] = R[1]
                    THEN ((3 * Q[1] * Q[1] + ec.a)
                          * mod_inv(2 * Q[2], ec.p)) % ec.p
                    ELSE ((R[2] - Q[2]) * mod_inv(R[1] - Q[1], ec.p)) % ec.p
             x == (lam * lam - Q[1] - R[1]) % ec.p
         IN  <<x, (lam * (Q[1] - x) - Q[2]) % ec.p>>

\* the points of the curve, infinity included
Points(ec) ==
    {INF} \cup {P \in (0..(ec.p - 1)) \X (0..(ec.p - 1)) : is_on_curve(P, ec)}

\* m*Q for m in [0, n], by repeated addition
_multiples(Q, ec) ==
    LET f[m \in 0..ec.n] ==
            IF m = 0 THEN INF
            ELSE CHOOSE R \in {_add_aff(T, Q, ec) : T \in {f[m - 1]}} : TRUE
    IN  Table(f)

\* m*Q for every curve, point and scalar m in [0, n]
MultTable ==
    Table([e \in Curves |-> Table([P \in Points(e) |-> _multiples(P, e)])])

_mult_aff(m, Q, ec) == MultTable[ec][Q][m]

\* scalar multiplication m*Q in Jacobian coordinates
_mult(m, QJ, ec) == _jac_from_aff(_mult_aff(m, _aff_from_jac(QJ, ec), ec))

\* u*H + v*Q (Shamir's trick in the code)
_double_mult(u, HJ, v, QJ, ec) ==
    _jac_from_aff(_add_aff(_mult_aff(u, _aff_from_jac(HJ, ec), ec),
                           _mult_aff(v, _aff_from_jac(QJ, ec), ec), ec))

GJ(ec) == <<ec.G[1], ec.G[2], 1>>

\* the even square root of x^3 + a*x + b, a Value error when there is none
has_root(x, ec) == \E y \in 0..(ec.p - 1) : (y * y) % ec.p = _y2(x, ec)

y_even(x, ec) ==
    CHOOSE y \in 0..(ec.p - 1) : (y * y) % ec.p = _y2(x, ec) /\ y % 2 = 0

(***************************************************************************)
(* Octets, hashing and key material (btclib/utils.py, hashes.py,           *)
(* to_prvkey.py, to_pubkey.py, der.py, rfc6979.py).                        *)
(***************************************************************************)
\* int.from_bytes(o, "big")
RECURSIVE int_from_bytes(_)
int_from_bytes(o) ==
    IF o = <<>> THEN 0
    ELSE 256 * int_from_bytes(SubSeq(o, 1, Len(o) - 1)) + o[Len(o)]

\* the octets, a Value error unless they are out_size bytes long
bytes_from_octets(o, out_size) ==
    IF Len(o) = out_size THEN Ok(o)
    ELSE Raise(BTClibValueError, "wrong number of bytes")

\* the leftmost nbits bits of o as an integer
int_from_bits(o, nbits) ==
    LET blen == Len(o) * 8
        shift == IF blen >= nbits THEN blen - nbits ELSE 0
    IN  int_from_bytes(o) \div pow(2, shift)

\* The messages in play and a value that is not a String
Msgs == {"Alice", "Bob"}
NotAString == "<not a String>"

\* hf(msg).digest(): hf is the table of the digests computed so far; hashing
\* anything but str or bytes raises TypeError
reduce_to_hlen(msg, hf) ==
    IF msg \in Msgs THEN Ok(hf[msg])
    ELSE Raise(TypeError, "object supporting the buffer API required")

\* the private key as an integer in [1, n-1]
int_from_prvkey(prvkey, ec) ==
    IF prvkey \in 1..(ec.n - 1) THEN Ok(prvkey)
    ELSE Raise(BTClibValueError, "private key not in 1..n-1")

\* the public key as an affine point: on the curve and not infinity
point_from_key(key, ec) ==
    IF Len(key) = 2 /\ key # INF /\ is_on_curve(key, ec) THEN Ok(key)
    ELSE Raise(BTClibValueError, "not a public key")

\* der._validate_sig: r and s are scalars in [1, n-1]
_validate_sig(r, s, ec) ==
    IF r \notin 1..(ec.n - 1) THEN Raise(BTClibValueError, "r not in 1..n-1")
    ELSE IF s \notin 1..(ec.n - 1)
         THEN Raise(BTClibValueError, "s not in 1..n-1")
    ELSE Ok(<<r, s>>)

(***************************************************************************)
(* ECDSA (btclib/dsa.py).                                                  *)
(***************************************************************************)
\* sig is a tuple: unpacking anything but a pair raises ValueError
deserialize(sig, ec) ==
    IF Len(sig) # 2 THEN Raise(ValueError, "not enough values to unpack")
    ELSE _validate_sig(sig[1], sig[2], ec)

_challenge(m, ec) ==
    LET o == bytes_from_octets(m, HashLen)
    IN  IF ~o.ok THEN o
        ELSE Ok(int_from_bits(o.val, nlen(ec)) % ec.n)

challenge(msg, ec, hf) ==
    LET m == reduce_to_hlen(msg, hf)
    IN  IF ~m.ok THEN m ELSE _challenge(m.val, ec)

\* v rounded to FloatMantDig significant bits, ties to even
round_to_float(v) ==
    LET L == bit_length(v)
    IN  IF L <= FloatMantDig THEN v
        ELSE LET unit == pow(2, L - FloatMantDig)
                 lo == (v \div unit) * unit
                 rem == v - lo
             IN  IF 2 * rem < unit THEN lo
                 ELSE IF 2 * rem > unit THEN lo + unit
                 ELSE IF (v \div unit) % 2 = 0 THEN lo ELSE lo + unit

\* s > ec.n / 2: the quotient is a float, compared exactly with the int s
gt_half_n(s, ec) == 2 * s > round_to_float(ec.n)

\* __sign without the check of s: a plausible slip, used to test C9
__sign_unchecked_s(c, q, k, low_s, ec) ==
    Let(_mult(k, GJ(ec), ec), LAMBDA KJ :
        IF ~coprime(KJ[3] * KJ[3], ec.p)
        THEN Raise(BTClibRuntimeError, "no inverse")
        ELSE
        Let((KJ[1] * mod_inv(KJ[3] * KJ[3], ec.p)) % ec.p, LAMBDA x_K :
        Let(x_K % ec.n, LAMBDA r :
            IF r = 0 THEN Raise(BTClibRuntimeError, "failed to sign: r = 0")
            ELSE IF ~coprime(k, ec.n)
            THEN Raise(BTClibRuntimeError, "no inverse")
            ELSE
            Let((mod_inv(k, ec.n) * (c + r * q)) % ec.n, LAMBDA s :
                IF low_s /\ gt_half_n(s, ec) THEN Ok(<<r, ec.n - s>>)
                ELSE Ok(<<r, s>>)))))

__sign(c, q, k, low_s, ec) ==
    Let(_mult(k, GJ(ec), ec), LAMBDA KJ :
        IF ~coprime(KJ[3] * KJ[3], ec.p)
        THEN Raise(BTClibRuntimeError, "no inverse")
        ELSE
        Let((KJ[1] * mod_inv(KJ[3] * KJ[3], ec.p)) % ec.p, LAMBDA x_K :
        Let(x_K % ec.n, LAMBDA r :
            IF r = 0 THEN Raise(BTClibRuntimeError, "failed to sign: r = 0")
            ELSE IF ~coprime(k, ec.n)
            THEN Raise(BTClibRuntimeError, "no inverse")
            ELSE
            Let((mod_inv(k, ec.n) * (c + r * q)) % ec.n, LAMBDA s :
                IF s = 0
                THEN Raise(BTClibRuntimeError, "failed to sign: s = 0")
                ELSE IF low_s /\ gt_half_n(s, ec) THEN Ok(<<r, ec.n - s>>)
                ELSE Ok(<<r, s>>)))))

\* rfc is the nonce that __rfc6979(c, q, ec, hf) derives
_sign(m, prvkey, k, low_s, ec, rfc) ==
    LET o == bytes_from_octets(m, HashLen)
        q == int_from_prvkey(prvkey, ec)
        c == _challenge(m, ec)
        kk == IF k = None THEN Ok(rfc) ELSE int_from_prvkey(k[1], ec)
    IN  IF ~o.ok THEN o
        ELSE IF ~q.ok THEN q
        ELSE IF ~c.ok THEN c
        ELSE IF ~kk.ok THEN kk
        ELSE __sign(c.val, q.val, kk.val, low_s, ec)

sign(msg, prvkey, low_s, ec, hf, rfc) ==
    LET m == reduce_to_hlen(msg, hf)
    IN  IF ~m.ok THEN m ELSE _sign(m.val, prvkey, None, low_s, ec, rfc)

\* __assert_as_valid without the comparison of r with x_K
__assert_as_valid_any_r(c, QJ, r, s, ec) ==
    IF ~coprime(s, ec.n) THEN Raise(BTClibRuntimeError, "no inverse")
    ELSE
    LET w == mod_inv(s, ec.n)
        u == (c * w) % ec.n
        v == (r * w) % ec.n
    IN  Let(_double_mult(v, QJ, u, GJ(ec), ec), LAMBDA KJ :
        IF KJ[3] = 0 THEN Raise(AssertionError, "invalid (INF) key")
        ELSE Ok(<<>>))

__assert_as_valid(c, QJ, r, s, ec) ==
    IF ~coprime(s, ec.n) THEN Raise(BTClibRuntimeError, "no inverse")
    ELSE
    LET w == mod_inv(s, ec.n)
        u == (c * w) % ec.n
        v == (r * w) % ec.n
    IN  Let(_double_mult(v, QJ, u, GJ(ec), ec), LAMBDA KJ :
        IF KJ[3] = 0 THEN Raise(AssertionError, "invalid (INF) key")
        ELSE
        LET x_K == (KJ[1] * mod_inv(KJ[3] * KJ[3], ec.p)) % ec.p
        IN  IF r # x_K % ec.n
            THEN Raise(BTClibRuntimeError, "signature verification failed")
            ELSE Ok(<<>>))

_assert_as_valid(m, key, sig, ec) ==
    LET rs == deserialize(sig, ec)
        o == bytes_from_octets(m, HashLen)
        c == _challenge(m, ec)
        Q == point_from_key(key, ec)
    IN  IF ~rs.ok THEN rs
        ELSE IF ~o.ok THEN o
        ELSE IF ~c.ok THEN c
        ELSE IF ~Q.ok THEN Q
        ELSE __assert_as_valid(c.val, <<Q.val[1], Q.val[2], 1>>,
                               rs.val[1], rs.val[2], ec)

assert_as_valid(msg, key, sig, ec, hf) ==
    LET m == reduce_to_hlen(msg, hf)
    IN  IF ~m.ok THEN m ELSE _assert_as_valid(m.val, key, sig, ec)

\* except Exception: return False
_verify(m, key, sig, ec) == Ok(_assert_as_valid(m, key, sig, ec).ok)

verify(msg, key, sig, ec, hf) ==
    LET m == reduce_to_hlen(msg, hf)
    IN  IF ~m.ok THEN m ELSE _verify(m.val, key, sig, ec)

\* the exceptions the recovery loop catches
_caught(res) == res.err \in {BTClibValueError, BTClibRuntimeError}

\* one round of the loop of __recover_pubkeys: the keys appended for j, or
\* the exception that leaves the loop
__recover_round(j, c, r, s, ec) ==
    LET r_1 == mod_inv(r, ec.n)
        r1s == (r_1 * s) % ec.n
        r1e == ((0 - r_1) * c) % ec.n
        x_K == (r + j * ec.n) % ec.p
    IN  IF ~has_root(x_K, ec) THEN Ok(<<>>)
        ELSE
        LET yodd == y_even(x_K, ec)
        IN
        Let(_double_mult(r1s, <<x_K, yodd, 1>>, r1e, GJ(ec), ec), LAMBDA QJ1 :
        Let(__assert_as_valid(c, QJ1, r, s, ec), LAMBDA v1 :
        Let(_double_mult(r1s, <<x_K, ec.p - yodd, 1>>, r1e, GJ(ec), ec),
            LAMBDA QJ2 :
        Let(__assert_as_valid(c, QJ2, r, s, ec), LAMBDA v2 :
            LET keys1 == IF v1.ok THEN <<QJ1>> ELSE <<>>
            IN  IF ~v1.ok /\ ~_caught(v1) THEN v1
                ELSE IF ~v2.ok /\ ~_caught(v2) THEN v2
                ELSE Ok(IF v2.ok THEN Append(keys1, QJ2) ELSE keys1)))))

\* rounds j .. ec.cofactor of the loop, keys the list so far
RECURSIVE __recover_loop(_, _, _, _, _, _)
__recover_loop(j, keys, c, r, s, ec) ==
    IF j > ec.cofactor THEN Ok(keys)
    ELSE Let(__recover_round(j, c, r, s, ec), LAMBDA round :
             IF ~round.ok THEN round
             ELSE __recover_loop(j + 1, keys \o round.val, c, r, s, ec))

__recover_pubkeys(c, r, s, ec) ==
    IF ~coprime(r, ec.n) THEN Raise(BTClibRuntimeError, "no inverse")
    ELSE __recover_loop(0, <<>>, c, r, s, ec)

_recover_pubkeys(m, sig, ec) ==
    LET o == bytes_from_octets(m, HashLen)
        c == _challenge(m, ec)
        rs == deserialize(sig, ec)
    IN  IF ~o.ok THEN o
        ELSE IF ~c.ok THEN c
        ELSE IF ~rs.ok THEN rs
        ELSE Let(__recover_pubkeys(c.val, rs.val[1], rs.val[2], ec),
                 LAMBDA QJs :
                 IF ~QJs.ok THEN QJs
                 ELSE Ok([i \in 1..Len(QJs.val) |->
                             _aff_from_jac(QJs.val[i], ec)]))

recover_pubkeys(msg, sig, ec, hf) ==
    LET m == reduce_to_hlen(msg, hf)
    IN  IF ~m.ok THEN m ELSE _recover_pubkeys(m.val, sig, ec)

\* key_id & 0b110 and key_id & 0b01
_and_0b110(key_id) == ((key_id \div 2) % 4) * 2
_and_0b01(key_id) == key_id % 2

__recover_pubkey(key_id, c, r, s, ec) ==
    IF ~coprime(r, ec.n) THEN Raise(BTClibRuntimeError, "no inverse")
    ELSE
    LET r_1 == mod_inv(r, ec.n)
        r1s == (r_1 * s) % ec.n
        r1e == ((0 - r_1) * c) % ec.n
        j == _and_0b110(key_id)
        x_K == (r + j * ec.n) % ec.p
        i == _and_0b01(key_id)
    IN  IF ~has_root(x_K, ec)
        THEN Raise(BTClibValueError, "no root exists")
        ELSE
        LET y_ev == y_even(x_K, ec)
            y_K == IF i # 0 THEN ec.p - y_ev ELSE y_ev
        IN  Let(_double_mult(r1s, <<x_K, y_K, 1>>, r1e, GJ(ec), ec),
                LAMBDA QJ :
            Let(__assert_as_valid(c, QJ, r, s, ec), LAMBDA v :
                IF ~v.ok THEN v ELSE Ok(QJ)))

\* _crack_prvkey taking s_1 with c_2: a plausible slip, used to test C4
_crack_prvkey_s1(m_1, sig1, m_2, sig2, ec) ==
    LET rs1 == deserialize(sig1, ec)
        rs2 == deserialize(sig2, ec)
    IN  IF ~rs1.ok THEN rs1
        ELSE IF ~rs2.ok THEN rs2
        ELSE
        LET r_1 == rs1.val[1]
            s_1 == rs1.val[2]
            r_2 == rs2.val[1]
            s_2 == rs2.val[2]
            c_1 == _challenge(m_1, ec)
            c_2 == _challenge(m_2, ec)
        IN  IF r_1 # r_2
            THEN Raise(BTClibValueError, "not the same r in signatures")
            ELSE IF s_1 = s_2
            THEN Raise(BTClibValueError, "identical signatures")
            ELSE IF ~c_1.ok THEN c_1
            ELSE IF ~c_2.ok THEN c_2
            ELSE IF ~coprime(s_1 - s_2, ec.n)
            THEN Raise(BTClibRuntimeError, "no inverse")
            ELSE IF ~coprime(r_1, ec.n)
            THEN Raise(BTClibRuntimeError, "no inverse")
            ELSE
            LET k == ((c_1.val - c_2.val) * mod_inv(s_1 - s_2, ec.n)) % ec.n
                q == ((s_1 * k - c_2.val) * mod_inv(r_1, ec.n)) % ec.n
            IN  Ok(<<q, k>>)

_crack_prvkey(m_1, sig1, m_2, sig2, ec) ==
    LET rs1 == deserialize(sig1, ec)
        rs2 == deserialize(sig2, ec)
    IN  IF ~rs1.ok THEN rs1
        ELSE IF ~rs2.ok THEN rs2
        ELSE
        LET r_1 == rs1.val[1]
            s_1 == rs1.val[2]
            r_2 == rs2.val[1]
            s_2 == rs2.val[2]
            c_1 == _challenge(m_1, ec)
            c_2 == _challenge(m_2, ec)
        IN  IF r_1 # r_2
            THEN Raise(BTClibValueError, "not the same r in signatures")
            ELSE IF s_1 = s_2
            THEN Raise(BTClibValueError, "identical signatures")
            ELSE IF ~c_1.ok THEN c_1
            ELSE IF ~c_2.ok THEN c_2
            ELSE IF ~coprime(s_1 - s_2, ec.n)
            THEN Raise(BTClibRuntimeError, "no inverse")
            ELSE IF ~coprime(r_1, ec.n)
            THEN Raise(BTClibRuntimeError, "no inverse")
            ELSE
            LET k == ((c_1.val - c_2.val) * mod_inv(s_1 - s_2, ec.n)) % ec.n
                q == ((s_2 * k - c_2.val) * mod_inv(r_1, ec.n)) % ec.n
            IN  Ok(<<q, k>>)

crack_prvkey(msg1, sig1, msg2, sig2, ec, hf) ==
    LET m_1 == reduce_to_hlen(msg1, hf)
        m_2 == reduce_to_hlen(msg2, hf)
    IN  IF ~m_1.ok THEN m_1
        ELSE IF ~m_2.ok THEN m_2
        ELSE _crack_prvkey(m_1.val, sig1, m_2.val, sig2, ec)

(***************************************************************************)
(* The state: the curve in use, the key pair of gen_keys, the digests hf   *)
(* has computed so far, the signatures made with the caller's nonce, and   *)
(* the last call with its arguments and result.                            *)
(***************************************************************************)
VARIABLES curve, prv, pub, hashed, sigs, call

vars == <<curve, prv, pub, hashed, sigs, call>>

\* the digests hf may yield: every value of the leftmost nlen bits, the
\* remaining bits set or not
Digests(e) ==
    LET shift == 8 * HashLen - nlen(e)
    IN  { [i \in 1..HashLen |->
              ((raw * pow(2, shift) + (raw % 2)) \div pow(256, HashLen - i))
              % 256]
          : raw \in 0..(pow(2, nlen(e)) - 1) }

DigestTable == Table([e \in Curves |-> Digests(e)])

NoSig == [sig |-> <<>>, k |-> 0, low_s |-> FALSE]

Call(fn, args, res) == [fn |-> fn, args |-> args, res |-> res]

\* the digests hf may compute for msg: the one it computed before, if any
Hashes(msg) ==
    IF msg \in DOMAIN hashed THEN {hashed[msg]} ELSE DigestTable[curve]

WithDigest(msg, d) ==
    [x \in DOMAIN hashed \cup {msg} |-> IF x = msg THEN d ELSE hashed[x]]

Init ==
    /\ curve \in Curves
    /\ prv = 0
    /\ pub = INF
    /\ hashed = <<>>
    /\ sigs = [m \in Msgs |-> NoSig]
    /\ call = Call("init", <<>>, Ok(<<>>))

\* gen_keys(None, ec) drawing q as 1 + randbelow(n)
gen_keys_randbelow_n ==
    /\ prv = 0
    /\ \E randbelow \in 0..(curve.n - 1) :
          LET qq == 1 + randbelow
              QJ == _mult(qq, GJ(curve), curve)
          IN  /\ prv' = qq
              /\ pub' = _aff_from_jac(QJ, curve)
              /\ call' = Call("gen_keys", <<>>,
                              Ok(<<qq, _aff_from_jac(QJ, curve)>>))
    /\ UNCHANGED <<curve, hashed, sigs>>

\* gen_keys(None, ec)
gen_keys ==
    /\ prv = 0
    /\ \E randbelow \in 0..(curve.n - 2) :
          LET qq == 1 + randbelow
              QJ == _mult(qq, GJ(curve), curve)
          IN  /\ prv' = qq
              /\ pub' = _aff_from_jac(QJ, curve)
              /\ call' = Call("gen_keys", <<>>,
                              Ok(<<qq, _aff_from_jac(QJ, curve)>>))
    /\ UNCHANGED <<curve, hashed, sigs>>

\* sign(msg, q, low_s, ec, hf) with the key pair just generated, the nonce
\* derived by RFC 6979
Sign ==
    /\ call.fn = "gen_keys"
    /\ \E msg \in Msgs, low_s \in BOOLEAN, rfc \in 1..(curve.n - 1) :
          /\ \E d \in Hashes(msg) :
                /\ hashed' = WithDigest(msg, d)
                /\ call' = Call("sign",
                                [msg |-> msg, low_s |-> low_s, k |-> rfc],
                                sign(msg, prv, low_s, curve,
                                     WithDigest(msg, d), rfc))
    /\ UNCHANGED <<curve, prv, pub, sigs>>

\* a signature has just been made
Signed == call.fn = "sign" /\ call.res.ok

\* verify(msg, Q, sig, ec, hf) of the signature just made
Verify ==
    /\ Signed
    /\ call' = Call("verify",
                    [msg |-> call.args.msg, key |-> pub, sig |-> call.res.val,
                     low_s |-> call.args.low_s],
                    verify(call.args.msg, pub, call.res.val, curve, hashed))
    /\ UNCHANGED <<curve, prv, pub, hashed, sigs>>

\* what a caller may pass for the message, the key and the signature
AnyMsg(msg) == {msg, NotAString}
AnyKey(Q) == {Q, INF, <<0, 0>>, <<0>>}
AnySig(sig, e) ==
    {sig, <<sig[1], 0>>, <<0, sig[2]>>, <<sig[1], e.n>>, <<sig[1]>>,
     <<sig[1], (sig[2] % (e.n - 1)) + 1>>}
AnyDigest(m) == {m, <<>>, m \o <<0>>}

\* the arguments of a verification, one of them at most not the genuine one
VerifyArgs(msg, Q, sig, e) ==
    {<<mm, Q, sig>> : mm \in AnyMsg(msg)}
        \cup {<<msg, kk, sig>> : kk \in AnyKey(Q)}
        \cup {<<msg, Q, ss>> : ss \in AnySig(sig, e)}

\* verify(msg, key, sig, ec, hf) with any message, key and signature
VerifyAny ==
    /\ Signed
    /\ \E a \in VerifyArgs(call.args.msg, pub, call.res.val, curve) :
          call' = Call("verify_any",
                       [msg |-> a[1], key |-> a[2], sig |-> a[3]],
                       verify(a[1], a[2], a[3], curve, hashed))
    /\ UNCHANGED <<curve, prv, pub, hashed, sigs>>

\* _verify(m, key, sig, ec, hf) with any digest, key and signature
VerifyDigest ==
    /\ Signed
    /\ \E m \in AnyDigest(hashed[call.args.msg]),
          kk \in AnyKey(pub), ss \in AnySig(call.res.val, curve) :
          /\ (m = hashed[call.args.msg] /\ kk = pub) \/ ss = call.res.val
          /\ call' = Call("_verify",
                          [m |-> m, key |-> kk, sig |-> ss],
                          _verify(m, kk, ss, curve))
    /\ UNCHANGED <<curve, prv, pub, hashed, sigs>>

\* recover_pubkeys(msg, sig, ec, hf) of the signature just made
Recover ==
    /\ Signed
    /\ call' = Call("recover_pubkeys",
                    [msg |-> call.args.msg, sig |-> call.res.val],
                    recover_pubkeys(call.args.msg, call.res.val, curve, hashed))
    /\ UNCHANGED <<curve, prv, pub, hashed, sigs>>

\* signing, verification and recovery
Next ==
    \/ gen_keys
    \/ Sign
    \/ Verify
    \/ VerifyAny
    \/ VerifyDigest
    \/ Recover

Spec == Init /\ [][Next]_vars

(***************************************************************************)
(* Properties of signing, verification and recovery.                       *)
(***************************************************************************)
Elems(seq) == {seq[i] : i \in DOMAIN seq}

\* the last call made a signature with low_s set
SignedLowS == Signed /\ call.args.low_s

\* C1: whenever sign(msg, q) with the default low_s returns (r, s), then
\* 1 <= r < n and 1 <= s <= n/2, and verify(msg, q*G, (r, s)) returns true.
C1_SignThenVerify ==
    (call.fn = "verify" /\ call.args.low_s) =>
        /\ call.args.sig[1] \in 1..(curve.n - 1)
        /\ call.args.sig[2] >= 1
        /\ 2 * call.args.sig[2] <= curve.n
        /\ call.res = Ok(TRUE)

\* C2: signing with low_s = true always returns s <= n/2, for every
\* challenge, key and nonce for which signing succeeds.
C2_LowS == SignedLowS => 2 * call.res.val[2] <= curve.n

\* C3: if sig = sign(msg, q) succeeds then q*G is an element of
\* recover_pubkeys(msg, sig).
C3_RecoversPubkey ==
    call.fn = "recover_pubkeys" =>
        /\ call.res.ok
        /\ _mult_aff(prv, curve.G, curve) \in Elems(call.res.val)

\* the argument is not what the parameter's type asks for
MalformedMsg(msg) == msg \notin Msgs
MalformedDigest(m) == Len(m) # HashLen
MalformedKey(key) ==
    Len(key) # 2 \/ key = INF \/ ~is_on_curve(key, curve)
MalformedSig(sig) ==
    Len(sig) # 2 \/ \E i \in DOMAIN sig : sig[i] \notin 1..(curve.n - 1)

\* C6: verify and _verify always return a boolean and never raise: a
\* malformed message, key or signature gives the result false.
C6_VerifyNeverRaises ==
    /\ call.fn \in {"verify", "verify_any"} =>
          /\ call.res.ok
          /\ call.res.val \in BOOLEAN
          /\ (MalformedMsg(call.args.msg) \/ MalformedKey(call.args.key)
                \/ MalformedSig(call.args.sig)) => call.res.val = FALSE
    /\ call.fn = "_verify" =>
          /\ call.res.ok
          /\ call.res.val \in BOOLEAN
          /\ (MalformedDigest(call.args.m) \/ MalformedKey(call.args.key)
                \/ MalformedSig(call.args.sig)) => call.res.val = FALSE

\* the part of C6 about _verify alone
C6_PrivateVerifyNeverRaises ==
    call.fn = "_verify" =>
          /\ call.res.ok
          /\ call.res.val \in BOOLEAN
          /\ (MalformedDigest(call.args.m) \/ MalformedKey(call.args.key)
                \/ MalformedSig(call.args.sig)) => call.res.val = FALSE

\* the nonce point K = k*G, r and s of the signing call just made
SignK_ == _mult_aff(call.args.k, curve.G, curve)
SignR == SignK_[1] % curve.n
SignC == challenge(call.args.msg, curve, hashed).val
SignS == (mod_inv(call.args.k, curve.n) * (SignC + SignR * prv)) % curve.n

\* C9: signing fails with a Runtime error 'r = 0' when (k*G).x mod n = 0
\* and with a Runtime error 's = 0' when k^-1 * (c + r*q) mod n = 0, the
\* r check first; no returned signature has r = 0 or s = 0.
C9_ZeroRS ==
    call.fn = "sign" =>
        /\ SignR = 0 =>
              call.res = Raise(BTClibRuntimeError, "failed to sign: r = 0")
        /\ (SignR # 0 /\ SignS = 0) =>
              call.res = Raise(BTClibRuntimeError, "failed to sign: s = 0")
        /\ call.res.ok =>
              /\ SignR # 0 /\ SignS # 0
              /\ call.res.val[1] # 0
              /\ call.res.val[2] # 0

C9_Witness ==
    /\ call.fn = "sign"
    /\ call.res = Raise(BTClibRuntimeError, "failed to sign: s = 0")

C9_WitnessR ==
    /\ call.fn = "sign"
    /\ call.res = Raise(BTClibRuntimeError, "failed to sign: r = 0")

\* C1 without the bound on s: the signature verifies and r is in range
C1_Verifies ==
    call.fn = "verify" =>
        /\ call.args.sig[1] \in 1..(curve.n - 1)
        /\ call.args.sig[2] \in 1..(curve.n - 1)
        /\ call.res = Ok(TRUE)

(***************************************************************************)
(* Key recovery from any signature.                                        *)
(***************************************************************************)
\* the scalars a signature is made of
Scalars(e) == 1..(e.n - 1)

\* the key_id values the code allows for
KeyIds == 0..7

\* recover_pubkeys(msg, sig, ec, hf) for any signature with r, s in [1, n-1],
\* the first call of a session
RecoverAny ==
    /\ call.fn = "init"
    /\ \E msg \in Msgs, r \in Scalars(curve), s \in Scalars(curve) :
       \E d \in Hashes(msg) :
          /\ hashed' = WithDigest(msg, d)
          /\ call' = Call("recover_pubkeys",
                          [msg |-> msg, sig |-> <<r, s>>],
                          recover_pubkeys(msg, <<r, s>>, curve,
                                          WithDigest(msg, d)))
    /\ UNCHANGED <<curve, prv, pub, sigs>>

\* __recover_pubkey(key_id, c, r, s, ec), the first call of a session
RecoverKey ==
    /\ call.fn = "init"
    /\ \E key_id \in KeyIds, c \in 0..(curve.n - 1),
          r \in Scalars(curve), s \in Scalars(curve) :
          call' = Call("__recover_pubkey",
                       [key_id |-> key_id, c |-> c, r |-> r, s |-> s],
                       __recover_pubkey(key_id, c, r, s, curve))
    /\ UNCHANGED <<curve, prv, pub, hashed, sigs>>

RecoverNext ==
    \/ RecoverAny
    \/ RecoverKey

RecoverSpec == Init /\ [][RecoverNext]_vars

\* whether x_K = (r + j*n) mod p is the abscissa of a curve point
CandidateOnCurve(j, r, e) ==
    \E y \in 0..(e.p - 1) : (y * y) % e.p = _y2((r + j * e.n) % e.p, e)

\* the point K of candidate (j, parity): the even y for parity 0, the other
\* root for parity 1
CandidateK(j, parity, r, e) ==
    LET x_K == (r + j * e.n) % e.p
        y0 == CHOOSE y \in 0..(e.p - 1) :
                  (y * y) % e.p = _y2(x_K, e) /\ y % 2 = 0
    IN  <<x_K, IF parity = 0 THEN y0 ELSE (e.p - y0) % e.p>>

\* Q = r^-1 * (s*K - c*G)
CandidateQ(j, parity, c, r, s, e) ==
    LET r_1 == mod_inv(r, e.n)
    IN  _add_aff(_mult_aff((r_1 * s) % e.n, CandidateK(j, parity, r, e), e),
                 _mult_aff((e.n - ((r_1 * c) % e.n)) % e.n, e.G, e), e)

\* the candidate verifies: u*G + v*Q is a finite point with x mod n = r
CandidateVerifies(j, parity, c, r, s, e) ==
    LET w == mod_inv(s, e.n)
        K == _add_aff(_mult_aff((c * w) % e.n, e.G, e),
                      _mult_aff((r * w) % e.n,
                                CandidateQ(j, parity, c, r, s, e), e), e)
    IN  K # INF /\ K[1] % e.n = r

CandidateSurvives(j, parity, c, r, s, e) ==
    CandidateOnCurve(j, r, e) /\ CandidateVerifies(j, parity, c, r, s, e)

\* the surviving candidates in the order j=0 even, j=0 odd, j=1 even, ...
Survivors(c, r, s, e) ==
    LET F[i \in 0..(2 * (e.cofactor + 1))] ==
            IF i = 0 THEN <<>>
            ELSE LET j == (i - 1) \div 2
                     parity == (i - 1) % 2
                 IN  IF CandidateSurvives(j, parity, c, r, s, e)
                     THEN Append(F[i - 1], CandidateQ(j, parity, c, r, s, e))
                     ELSE F[i - 1]
    IN  F[2 * (e.cofactor + 1)]

\* C8: recover_pubkeys returns the surviving candidates for j = 0 .. h,
\* even y first, in the order j=0 even, j=0 odd, j=1 even, ...; candidates
\* off the curve or failing verification are skipped without raising; at
\* most 2*(h+1) keys.
C8_RecoverOrder ==
    call.fn = "recover_pubkeys" =>
        /\ call.res.ok
        /\ call.res.val = Survivors(SignC, call.args.sig[1],
                                    call.args.sig[2], curve)
        /\ Len(call.res.val) <= 2 * (curve.cofactor + 1)

\* C8 for the calls that return
C8_RecoverOrderWhenReturns ==
    (call.fn = "recover_pubkeys" /\ call.res.ok) =>
        /\ call.res.val = Survivors(SignC, call.args.sig[1],
                                    call.args.sig[2], curve)
        /\ Len(call.res.val) <= 2 * (curve.cofactor + 1)

\* C7: for key_id in [0, 2h+1), __recover_pubkey(key_id, c, r, s) returns
\* the candidate of j = key_id div 2 and parity key_id mod 2, and fails when
\* that candidate does not verify.
C7_RecoverKeyId ==
    (call.fn = "__recover_pubkey"
        /\ call.args.key_id < 2 * curve.cofactor + 1) =>
        LET j == call.args.key_id \div 2
            parity == call.args.key_id % 2
            c == call.args.c
            r == call.args.r
            s == call.args.s
        IN  IF CandidateSurvives(j, parity, c, r, s, curve)
            THEN /\ call.res.ok
                 /\ _aff_from_jac(call.res.val, curve)
                        = CandidateQ(j, parity, c, r, s, curve)
            ELSE ~call.res.ok

\* C7 for the key_ids of j = 0
C7_RecoverKeyIdJ0 ==
    (call.fn = "__recover_pubkey" /\ call.args.key_id < 2) =>
        LET parity == call.args.key_id % 2
            c == call.args.c
            r == call.args.r
            s == call.args.s
        IN  IF CandidateSurvives(0, parity, c, r, s, curve)
            THEN /\ call.res.ok
                 /\ _aff_from_jac(call.res.val, curve)
                        = CandidateQ(0, parity, c, r, s, curve)
            ELSE ~call.res.ok

(***************************************************************************)
(* Nonce reuse: two messages signed with a nonce the caller forces, then   *)
(* the private key cracked from the two signatures.                        *)
(***************************************************************************)
\* the nonces the caller may force for msg: any for the first message, the
\* same again or the next one for the second
ForcedNonces(msg) ==
    IF msg = "Alice" THEN 1..(curve.n - 1)
    ELSE {sigs["Alice"].k, (sigs["Alice"].k % (curve.n - 1)) + 1}

\* _sign(reduce_to_hlen(msg), q, k, low_s, ec, hf) with the caller's nonce k,
\* "Alice" first, each message once
SignK ==
    /\ prv # 0
    /\ \E msg \in Msgs, low_s \in BOOLEAN :
          /\ sigs[msg] = NoSig
          /\ IF msg = "Alice" THEN call.fn = "gen_keys"
                              ELSE sigs["Alice"] # NoSig
          /\ \E k \in ForcedNonces(msg), d \in Hashes(msg) :
                LET res == _sign(d, prv, <<k>>, low_s, curve, 0)
                IN  /\ hashed' = WithDigest(msg, d)
                    /\ call' = Call("_sign",
                                    [msg |-> msg, low_s |-> low_s, k |-> k],
                                    res)
                    /\ sigs' = IF res.ok
                               THEN [sigs EXCEPT ![msg] =
                                      [sig |-> res.val, k |-> k,
                                       low_s |-> low_s]]
                               ELSE sigs
    /\ UNCHANGED <<curve, prv, pub>>

\* crack_prvkey(msg1, sig1, msg2, sig2, ec, hf) on the two signatures made
Crack ==
    /\ call.fn = "_sign"
    /\ sigs["Alice"] # NoSig
    /\ sigs["Bob"] # NoSig
    /\ call' = Call("crack_prvkey",
                    [msg1 |-> "Alice", msg2 |-> "Bob"],
                    crack_prvkey("Alice", sigs["Alice"].sig,
                                 "Bob", sigs["Bob"].sig, curve, hashed))
    /\ UNCHANGED <<curve, prv, pub, hashed, sigs>>

ReuseNext ==
    \/ gen_keys
    \/ SignK
    \/ Crack

ReuseSpec == Init /\ [][ReuseNext]_vars

\* the challenge of a signed message
ChallengeOf(msg) == challenge(msg, curve, hashed).val

\* the two messages were signed with the same nonce and their challenges
\* differ
SameNonce == sigs["Alice"].k = sigs["Bob"].k
DistinctChallenges == ChallengeOf("Alice") # ChallengeOf("Bob")

\* C4: for two messages with distinct challenges, each signed by q with the
\* same forced nonce k through _sign, whatever low_s, crack_prvkey returns
\* the original q as the first component of its result.
C4_CrackReturnsKey ==
    (call.fn = "crack_prvkey" /\ SameNonce /\ DistinctChallenges) =>
        /\ call.res.ok
        /\ call.res.val[1] = prv

\* the s of msg's signature before canonicalization
RawS(msg) ==
    (mod_inv(sigs[msg].k, curve.n)
        * (ChallengeOf(msg) + sigs[msg].sig[1] * prv)) % curve.n

\* canonicalization replaced the s of msg's signature by n - s
Flipped(msg) == sigs[msg].sig[2] # RawS(msg)

\* C4 as amended: crack_prvkey returns q when canonicalization replaced
\* both s or neither, as with low_s = false in both calls.
C4_CrackReturnsKeyUnflipped ==
    (call.fn = "crack_prvkey" /\ SameNonce /\ DistinctChallenges
        /\ Flipped("Alice") = Flipped("Bob")) =>
        /\ call.res.ok
        /\ call.res.val[1] = prv

C4_Witness ==
    /\ call.fn = "crack_prvkey"
    /\ SameNonce
    /\ DistinctChallenges
    /\ Flipped("Alice")
    /\ Flipped("Bob")
    /\ call.res.ok
    /\ call.res.val[1] = prv

\* C5: crack_prvkey fails, returning no (q, k), when the signatures have
\* different r, when they have the same s, and when the messages have the
\* same challenge.
C5_CrackFails ==
    (call.fn = "crack_prvkey"
        /\ \/ sigs["Alice"].sig[1] # sigs["Bob"].sig[1]
           \/ sigs["Alice"].sig[2] = sigs["Bob"].sig[2]
           \/ ~DistinctChallenges) =>
        ~call.res.ok

\* C5 without the case of equal challenges
C5_CrackFailsOnRS ==
    (call.fn = "crack_prvkey"
        /\ \/ sigs["Alice"].sig[1] # sigs["Bob"].sig[1]
           \/ sigs["Alice"].sig[2] = sigs["Bob"].sig[2]) =>
        call.res.err = BTClibValueError

(***************************************************************************)
(* Monetary amounts (btclib/amount.py).  Python integers and decimals are  *)
(* unbounded: an integer is a sign and its decimal digits, most            *)
(* significant first, a Decimal is a sign, a coefficient and an exponent,  *)
(* and a str is a sequence of characters.                                  *)
(***************************************************************************)
Zeros(k) == [i \in 1..k |-> 0]

\* the digits without leading zeros, <<0>> for zero
StripLeft(ds) ==
    LET nz == {i \in 1..Len(ds) : ds[i] # 0}
    IN  IF nz = {} THEN <<0>>
        ELSE SubSeq(ds, CHOOSE i \in nz : \A k \in nz : i <= k, Len(ds))

\* the number of trailing zeros of the digits
TrailingZeros(ds) ==
    LET nz == {i \in 1..Len(ds) : ds[i] # 0}
    IN  IF nz = {} THEN Len(ds)
        ELSE Len(ds) - (CHOOSE i \in nz : \A k \in nz : i >= k)

IsZero(ds) == \A i \in 1..Len(ds) : ds[i] = 0

\* -1, 0 or 1 as the natural number a is below, equal to or above b
CmpNat(a, b) ==
    LET x == StripLeft(a)
        y == StripLeft(b)
        diff == {i \in 1..Len(x) : Len(x) = Len(y) /\ x[i] # y[i]}
    IN  IF Len(x) < Len(y) THEN -1
        ELSE IF Len(x) > Len(y) THEN 1
        ELSE IF diff = {} THEN 0
        ELSE LET i == CHOOSE k \in diff : \A l \in diff : k <= l
             IN  IF x[i] < y[i] THEN -1 ELSE 1

\* a Python int
PyInt(sgn, digits) == [type |-> "int", sign |-> sgn, int |-> digits]

\* a decimal.Decimal: (-1)^sign * int * 10^exp
Decimal(sgn, digits, ex) ==
    [type |-> "Decimal", sign |-> sgn, int |-> digits, exp |-> ex]

\* a float, by the decimal of its repr: the shortest digits that read back
\* as the same float, without trailing zeros, times 10^exp
Float(sgn, digits, ex) ==
    [type |-> "float", sign |-> sgn, int |-> digits, exp |-> ex]

\* a str
Str(chars) == [type |-> "str", chars |-> chars]

DigitChars == <<"0", "1", "2", "3", "4", "5", "6", "7", "8", "9">>
IsDigitChar(ch) == \E d \in 1..10 : DigitChars[d] = ch
DigitOf(ch) == (CHOOSE d \in 1..10 : DigitChars[d] = ch) - 1
CharsOf(ds) == [i \in 1..Len(ds) |-> DigitChars[ds[i] + 1]]
DigitsOf(chars) == [i \in 1..Len(chars) |-> DigitOf(chars[i])]

\* the decimal digits of a small natural number and back
NatDigits(v) ==
    LET f[k \in 0..v] ==
            IF k < 10 THEN <<k>> ELSE Append(f[k \div 10], k % 10)
    IN  f[v]
NatOf(ds) ==
    LET f[k \in 0..Len(ds)] ==
            IF k = 0 THEN 0 ELSE 10 * f[k - 1] + ds[k]
    IN  f[Len(ds)]

\* -1, 0 or 1 as the magnitude of Decimal x is below, equal to or above
\* that of y
CmpAbs(x, y) ==
    LET e == IF x.exp < y.exp THEN x.exp ELSE y.exp
    IN  CmpNat(x.int \o Zeros(x.exp - e), y.int \o Zeros(y.exp - e))

\* x == y for two Decimals (or a Decimal and an int): the values are equal
DecimalEq(x, y) ==
    IF IsZero(x.int) \/ IsZero(y.int) THEN IsZero(x.int) /\ IsZero(y.int)
    ELSE x.sign = y.sign /\ CmpAbs(x, y) = 0

\* the precision of the decimal context
prec == 28

\* digits + 1
AddOne(ds) ==
    LET not9 == {i \in 1..Len(ds) : ds[i] # 9}
    IN  IF not9 = {} THEN <<1>> \o Zeros(Len(ds))
        ELSE LET i == CHOOSE k \in not9 : \A l \in not9 : k >= l
             IN  [k \in 1..Len(ds) |->
                     IF k < i THEN ds[k] ELSE IF k = i THEN ds[k] + 1 ELSE 0]

\* Decimal._fix: the coefficient rounded half-even to prec digits
_fix(x) ==
    IF Len(x.int) <= prec THEN x
    ELSE LET kept == SubSeq(x.int, 1, prec)
             rest == SubSeq(x.int, prec + 1, Len(x.int))
             half == CmpNat(rest, <<5>> \o Zeros(Len(rest) - 1))
             low == rest[1] < 5 \/ (half = 0 /\ kept[prec] % 2 = 0)
             up == IF low THEN kept ELSE AddOne(kept)
         IN  IF Len(up) > prec
             THEN Decimal(x.sign, SubSeq(up, 1, prec), x.exp + Len(rest) + 1)
             ELSE Decimal(x.sign, up, x.exp + Len(rest))

\* abs(x) for a Decimal: the sign cleared, the result rounded to the context
_abs(x) == _fix(Decimal(0, x.int, x.exp))

\* str(int): the digits, after '-' when negative
_str_int(i) == (IF i.sign = 1 THEN <<"-">> ELSE <<>>) \o CharsOf(i.int)

\* Decimal.__str__: scientific notation when the exponent is positive or
\* the number has more than six leading zeros after the point
_str_decimal(x) ==
    LET sgn == IF x.sign = 1 THEN <<"-">> ELSE <<>>
        leftdigits == x.exp + Len(x.int)
        dotplace == IF x.exp <= 0 /\ leftdigits > -6 THEN leftdigits ELSE 1
        digits == CharsOf(x.int)
        intpart == IF dotplace <= 0 THEN <<"0">>
                   ELSE IF dotplace >= Len(digits)
                   THEN digits \o CharsOf(Zeros(dotplace - Len(digits)))
                   ELSE SubSeq(digits, 1, dotplace)
        fracpart == IF dotplace <= 0
                    THEN <<".">> \o CharsOf(Zeros(0 - dotplace)) \o digits
                    ELSE IF dotplace >= Len(digits) THEN <<>>
                    ELSE <<".">> \o SubSeq(digits, dotplace + 1, Len(digits))
        e == leftdigits - dotplace
        expo == IF e = 0 THEN <<>>
                ELSE IF e < 0 THEN <<"E", "-">> \o CharsOf(NatDigits(0 - e))
                ELSE <<"E", "+">> \o CharsOf(NatDigits(e))
    IN  sgn \o intpart \o fracpart \o expo

\* float.__repr__: the shortest digits, in scientific notation when the
\* decimal point lies more than 16 digits right or 3 digits left of them
_str_float(x) ==
    LET sgn == IF x.sign = 1 THEN <<"-">> ELSE <<>>
        digits == CharsOf(x.int)
        decpt == Len(x.int) + x.exp
        e == decpt - 1
        expdigits == IF e < 0 THEN NatDigits(0 - e) ELSE NatDigits(e)
    IN  IF decpt <= -4 \/ decpt > 16
        THEN sgn \o <<digits[1]>>
                 \o (IF Len(digits) > 1 THEN <<".">> \o Tail(digits)
                     ELSE <<>>)
                 \o <<"e", IF e < 0 THEN "-" ELSE "+">>
                 \o CharsOf(IF Len(expdigits) < 2 THEN <<0>> \o expdigits
                            ELSE expdigits)
        ELSE IF decpt <= 0
        THEN sgn \o <<"0", ".">> \o CharsOf(Zeros(0 - decpt)) \o digits
        ELSE IF decpt >= Len(digits)
        THEN sgn \o digits \o CharsOf(Zeros(decpt - Len(digits)))
                 \o <<".", "0">>
        ELSE sgn \o SubSeq(digits, 1, decpt) \o <<".">>
                 \o SubSeq(digits, decpt + 1, Len(digits))

\* str(amount)
str(amount) ==
    IF amount.type = "str" THEN amount.chars
    ELSE IF amount.type = "int" THEN _str_int(amount)
    ELSE IF amount.type = "float" THEN _str_float(amount)
    ELSE _str_decimal(amount)

\* decimal.Decimal(chars): [sign] digits [. digits] [E [sign] digits]
_decimal_from_str(chars) ==
    LET hasSign == Len(chars) > 0 /\ chars[1] \in {"-", "+"}
        sgn == IF hasSign /\ chars[1] = "-" THEN 1 ELSE 0
        body == IF hasSign THEN Tail(chars) ELSE chars
        es == {i \in 1..Len(body) : body[i] \in {"E", "e"}}
        ePos == IF es = {} THEN Len(body) + 1
                ELSE CHOOSE i \in es : \A k \in es : i <= k
        mant == SubSeq(body, 1, ePos - 1)
        expo == SubSeq(body, ePos + 1, Len(body))
        expSigned == Len(expo) > 0 /\ expo[1] \in {"-", "+"}
        expDigits == IF expSigned THEN Tail(expo) ELSE expo
        dots == {i \in 1..Len(mant) : mant[i] = "."}
        dotPos == IF dots = {} THEN Len(mant) + 1
                  ELSE CHOOSE i \in dots : \A k \in dots : i <= k
        intpart == SubSeq(mant, 1, dotPos - 1)
        fracpart == SubSeq(mant, dotPos + 1, Len(mant))
        valid == /\ \A i \in 1..Len(intpart) : IsDigitChar(intpart[i])
                 /\ \A i \in 1..Len(fracpart) : IsDigitChar(fracpart[i])
                 /\ Len(intpart) + Len(fracpart) > 0
                 /\ es # {} => Len(expDigits) > 0
                 /\ \A i \in 1..Len(expDigits) : IsDigitChar(expDigits[i])
    IN  IF ~valid THEN Raise(InvalidOperation, "ConversionSyntax")
        ELSE LET ev == NatOf(DigitsOf(expDigits))
                 ex == IF expSigned /\ expo[1] = "-" THEN 0 - ev ELSE ev
             IN  Ok(Decimal(sgn, StripLeft(DigitsOf(intpart \o fracpart)),
                            ex - Len(fracpart)))

\* an int operand of a Decimal operation, as a Decimal
_convert_other(v) == IF v.type = "int" THEN Decimal(v.sign, v.int, 0) ELSE v

\* whether the digits are a power of ten
IsPow10(ds) == ds[1] = 1 /\ \A i \in 2..Len(ds) : ds[i] = 0

\* x * y for Decimals or ints, one of the coefficients a power of ten
_mul(x, y) ==
    LET a == _convert_other(x)
        b == _convert_other(y)
        sgn == (a.sign + b.sign) % 2
        ex == a.exp + b.exp
    IN  IF IsZero(a.int) \/ IsZero(b.int) THEN _fix(Decimal(sgn, <<0>>, ex))
        ELSE IF IsPow10(b.int)
        THEN _fix(Decimal(sgn, a.int \o Zeros(Len(b.int) - 1), ex))
        ELSE _fix(Decimal(sgn, b.int \o Zeros(Len(a.int) - 1), ex))

\* int(x) for a Decimal: the value truncated towards zero
_int_decimal(x) ==
    LET digits == IF x.exp >= 0 THEN x.int \o Zeros(x.exp)
                  ELSE IF Len(x.int) + x.exp <= 0 THEN <<0>>
                  ELSE SubSeq(x.int, 1, Len(x.int) + x.exp)
        v == StripLeft(digits)
    IN  PyInt(IF IsZero(v) THEN 0 ELSE x.sign, v)

\* Decimal.normalize: trailing zeros of the coefficient stripped
normalize(x) ==
    IF IsZero(x.int) THEN Decimal(x.sign, <<0>>, 0)
    ELSE LET z == TrailingZeros(x.int)
         IN  Decimal(x.sign, SubSeq(x.int, 1, Len(x.int) - z), x.exp + z)

_SATOSHI_PER_BITCOIN == PyInt(0, <<1, 0, 0, 0, 0, 0, 0, 0, 0>>)
_BITCOIN_PER_SATOSHI == Decimal(0, <<1>>, -8)
MAX_SATOSHI == PyInt(0, <<2, 0, 9, 9, 9, 9, 9, 9, 9, 7, 6, 9, 0, 0, 0, 0>>)
MAX_BITCOIN == Decimal(0, <<2, 0, 9, 9, 9, 9, 9, 9, 9, 7, 6, 9>>, -4)

\* sats_from_btc refusing MAX_BITCOIN itself: a plausible slip, used to
\* test C10
sats_from_btc_strict(amount) ==
    LET btc == _decimal_from_str(str(amount))
    IN  IF ~btc.ok THEN btc
        ELSE IF CmpAbs(_abs(btc.val), MAX_BITCOIN) >= 0
        THEN Raise(BTClibValueError, "invalid BTC amount")
        ELSE LET sats == _mul(btc.val, _SATOSHI_PER_BITCOIN)
             IN  IF DecimalEq(_convert_other(_int_decimal(sats)), sats)
                 THEN Ok(_int_decimal(sats))
                 ELSE Raise(BTClibValueError,
                            "too many decimals for a BTC amount")

sats_from_btc(amount) ==
    LET btc == _decimal_from_str(str(amount))
    IN  IF ~btc.ok THEN btc
        ELSE IF CmpAbs(_abs(btc.val), MAX_BITCOIN) = 1
        THEN Raise(BTClibValueError, "invalid BTC amount")
        ELSE LET sats == _mul(btc.val, _SATOSHI_PER_BITCOIN)
             IN  IF DecimalEq(_convert_other(_int_decimal(sats)), sats)
                 THEN Ok(_int_decimal(sats))
                 ELSE Raise(BTClibValueError,
                            "too many decimals for a BTC amount")

\* int(sats) for an int, a Decimal, a float or a str
_int(sats) ==
    IF sats.type = "int" THEN Ok(sats)
    ELSE IF sats.type \in {"Decimal", "float"} THEN Ok(_int_decimal(sats))
    ELSE LET signed == Len(sats.chars) > 0 /\ sats.chars[1] \in {"-", "+"}
             body == IF signed THEN Tail(sats.chars) ELSE sats.chars
         IN  IF Len(body) > 0 /\ \A i \in 1..Len(body) : IsDigitChar(body[i])
             THEN Ok(PyInt(IF signed /\ sats.chars[1] = "-"
                              /\ ~IsZero(DigitsOf(body)) THEN 1 ELSE 0,
                           StripLeft(DigitsOf(body))))
             ELSE Raise(ValueError, "invalid literal for int()")

\* btc_from_sats without normalize(): a plausible slip, used to test C12
btc_from_sats_unnormalized(sats) ==
    LET i == _int(sats)
    IN  IF ~i.ok THEN i
        ELSE IF sats.type = "str"
                \/ ~DecimalEq(_convert_other(i.val), _convert_other(sats))
        THEN Raise(BTClibTypeError, "non-integer satoshi amount")
        ELSE IF CmpNat(i.val.int, MAX_SATOSHI.int) = 1
        THEN Raise(BTClibValueError, "invalid satoshi amount")
        ELSE IF sats.type = "float"
        THEN Raise(TypeError, "unsupported operand type(s) for *")
        ELSE Ok(_mul(sats, _BITCOIN_PER_SATOSHI))

\* a float has no product with a Decimal
btc_from_sats(sats) ==
    LET i == _int(sats)
    IN  IF ~i.ok THEN i
        ELSE IF sats.type = "str"
                \/ ~DecimalEq(_convert_other(i.val), _convert_other(sats))
        THEN Raise(BTClibTypeError, "non-integer satoshi amount")
        ELSE IF CmpNat(i.val.int, MAX_SATOSHI.int) = 1
        THEN Raise(BTClibValueError, "invalid satoshi amount")
        ELSE IF sats.type = "float"
        THEN Raise(TypeError, "unsupported operand type(s) for *")
        ELSE Ok(normalize(_mul(sats, _BITCOIN_PER_SATOSHI)))

(***************************************************************************)
(* The amounts a caller converts: decimals with short coefficients, the    *)
(* largest amount and its neighbours, each as a Decimal, as a str in        *)
(* scientific and in positional notation and, when integral, as an int.    *)
(***************************************************************************)
MaxCoeffLen == 2
MaxExpAbs == 9

CoeffDigits == {0, 1, 5}

Coeffs ==
    UNION {{c \in [1..l -> CoeffDigits] : l = 1 \/ c[1] # 0}
           : l \in 1..MaxCoeffLen}

\* the largest amount, the same with eight decimals, the next amount above
\* it and one with more digits than the context's precision
SpecialDecimals ==
    {Decimal(sg, MAX_BITCOIN.int, MAX_BITCOIN.exp) : sg \in {0, 1}}
        \cup {Decimal(sg, MAX_BITCOIN.int \o Zeros(4), -8) : sg \in {0, 1}}
        \cup {Decimal(sg, MAX_BITCOIN.int \o <<0, 0, 0, 1>>, -8)
              : sg \in {0, 1}}
        \cup {Decimal(0, <<1>> \o Zeros(prec), 0 - prec)}

\* amounts whose last digit lies beyond the context's precision: one just
\* above 1 and the ones just above the largest amount
LongDecimals ==
    {Decimal(sg, <<1>> \o Zeros(prec - 1) \o <<1>>, 0 - prec)
     : sg \in {0, 1}}
        \cup {Decimal(sg, MAX_BITCOIN.int \o Zeros(prec - 12) \o <<1>>,
                      MAX_BITCOIN.exp - (prec - 11))
              : sg \in {0, 1}}

Decimals ==
    {Decimal(sg, c, e) : sg \in {0, 1}, c \in Coeffs,
                         e \in (0 - MaxExpAbs)..MaxExpAbs}
        \cup SpecialDecimals
        \cup LongDecimals

\* positional notation, every digit of the coefficient written out
Positional(d) ==
    LET sgn == IF d.sign = 1 THEN <<"-">> ELSE <<>>
        digits == CharsOf(d.int)
        k == Len(digits) + d.exp
    IN  IF d.exp >= 0 THEN sgn \o digits \o CharsOf(Zeros(d.exp))
        ELSE IF k > 0
        THEN sgn \o SubSeq(digits, 1, k) \o <<".">>
                 \o SubSeq(digits, k + 1, Len(digits))
        ELSE sgn \o <<"0", ".">> \o CharsOf(Zeros(0 - k)) \o digits

\* the float that prints as the short decimal d
FloatOf(d) ==
    LET x == normalize(d)
    IN  Float(x.sign, x.int, x.exp)

\* the forms in which a caller may give the amount d
Forms(d) ==
    {d, Str(_str_decimal(d)), Str(Positional(d))}
        \cup (IF d.exp >= 0 /\ (d.sign = 0 \/ ~IsZero(d.int))
              THEN {PyInt(d.sign, StripLeft(d.int \o Zeros(d.exp)))}
              ELSE {})
        \cup (IF Len(d.int) <= MaxCoeffLen THEN {FloatOf(d)} ELSE {})

\* sats_from_btc(amount), the first call of a session
SatsFromBtc ==
    /\ call.fn = "init"
    /\ \E d \in Decimals : \E x \in Forms(d) :
          call' = Call("sats_from_btc", [amount |-> x, value |-> d],
                       sats_from_btc(x))
    /\ UNCHANGED <<curve, prv, pub, hashed, sigs>>

\* btc_from_sats(sats) of the satoshis just computed
BtcFromSats ==
    /\ call.fn = "sats_from_btc"
    /\ call.res.ok
    /\ call' = Call("btc_from_sats",
                    [sats |-> call.res.val, amount |-> call.args.amount,
                     value |-> call.args.value],
                    btc_from_sats(call.res.val))
    /\ UNCHANGED <<curve, prv, pub, hashed, sigs>>

\* the satoshi amounts a caller may pass: integers up to and beyond
\* MAX_SATOSHI, the same as Decimals, Decimals next to MAX_SATOSHI with a
\* fractional digit, the short decimals, and floats and strs of these
SatsInts ==
    {PyInt(sg, ds) : sg \in {0, 1},
                     ds \in {<<1>>, <<1, 0, 0, 0, 0>>, MAX_SATOSHI.int,
                             AddOne(MAX_SATOSHI.int)}}
        \cup {PyInt(0, <<0>>)}

SatsArgs ==
    SatsInts
        \cup {Decimal(i.sign, i.int, 0) : i \in SatsInts}
        \cup {Decimal(i.sign, i.int \o <<0>>, -1) : i \in SatsInts}
        \cup {Decimal(i.sign, i.int \o <<5>>, -1) : i \in SatsInts}
        \cup {d \in Decimals : Len(d.int) <= MaxCoeffLen}
        \cup {FloatOf(d) : d \in {x \in Decimals : Len(x.int) <= MaxCoeffLen}}
        \cup {FloatOf(Decimal(i.sign, i.int, 0)) : i \in SatsInts}
        \cup {Str(_str_int(i)) : i \in SatsInts}

\* btc_from_sats(sats), the first call of a session
BtcFromSatsAny ==
    /\ call.fn = "init"
    /\ \E n \in SatsArgs :
          call' = Call("btc_from_sats", [sats |-> n], btc_from_sats(n))
    /\ UNCHANGED <<curve, prv, pub, hashed, sigs>>

AmountNext ==
    \/ SatsFromBtc
    \/ BtcFromSats
    \/ BtcFromSatsAny

AmountSpec == Init /\ [][AmountNext]_vars

\* the call is sats_from_btc(x), or btc_from_sats of its result
OfAmount ==
    /\ call.fn \in {"sats_from_btc", "btc_from_sats"}
    /\ "amount" \in DOMAIN call.args

\* d has at most 8 fractional decimal digits and |d| <= MAX_BITCOIN
AtMost8Decimals(d) ==
    IsZero(d.int) \/ d.exp + TrailingZeros(d.int) >= -8
InRange(d) == CmpAbs(d, MAX_BITCOIN) <= 0

\* C10: for every amount x with at most 8 fractional digits and
\* |x| <= MAX_BITCOIN, given as int, str or Decimal,
\* btc_from_sats(sats_from_btc(x)) equals the normalized value of x.
C10_AmountRoundTrip ==
    (OfAmount /\ call.args.amount.type # "float"
        /\ AtMost8Decimals(call.args.value) /\ InRange(call.args.value)) =>
        /\ call.res.ok
        /\ call.fn = "btc_from_sats" =>
              /\ DecimalEq(call.res.val, normalize(call.args.value))
              /\ ~IsZero(call.args.value.int) =>
                    call.res.val = normalize(call.args.value)

\* the integer d * 10^8 of an amount d with at most 8 decimals
ExactSats(d) ==
    LET digits == IF d.exp + 8 >= 0 THEN d.int \o Zeros(d.exp + 8)
                  ELSE SubSeq(d.int, 1, Len(d.int) + d.exp + 8)
        v == StripLeft(digits)
    IN  PyInt(IF IsZero(v) THEN 0 ELSE d.sign, v)

\* C11: sats_from_btc(x) fails with the Value error 'invalid BTC amount'
\* exactly when |x| > MAX_BITCOIN; otherwise it fails with the Value error
\* 'too many decimals' exactly when x * 10^8 is not an integer; otherwise it
\* returns the integer x * 10^8, at most MAX_SATOSHI in absolute value.
C11_SatsFromBtc ==
    (call.fn = "sats_from_btc" /\ call.args.amount.type # "float") =>
        IF ~InRange(call.args.value)
        THEN call.res = Raise(BTClibValueError, "invalid BTC amount")
        ELSE IF ~AtMost8Decimals(call.args.value)
        THEN call.res = Raise(BTClibValueError,
                              "too many decimals for a BTC amount")
        ELSE /\ call.res = Ok(ExactSats(call.args.value))
             /\ CmpNat(call.res.val.int, MAX_SATOSHI.int) <= 0

\* C11 for the amounts written with at most prec significant digits
C11_SatsFromBtcWithinPrec ==
    (call.fn = "sats_from_btc" /\ Len(call.args.value.int) <= prec) =>
        C11_SatsFromBtc

\* an amount above MAX_BITCOIN is converted to MAX_SATOSHI
C11_Witness ==
    /\ call.fn = "sats_from_btc"
    /\ ~InRange(call.args.value)
    /\ call.res = Ok(MAX_SATOSHI)

\* the value of a numeric argument n as a Decimal, and n / 10^8
ValueOf(n) == Decimal(n.sign, n.int, IF n.type = "int" THEN 0 ELSE n.exp)
Integral(n) ==
    IsZero(n.int) \/ ValueOf(n).exp + TrailingZeros(n.int) >= 0
AboveMaxSatoshi(n) ==
    CmpAbs(ValueOf(n), Decimal(0, MAX_SATOSHI.int, 0)) = 1
Div1e8(n) == Decimal(n.sign, n.int, ValueOf(n).exp - 8)

\* x is in canonical form: no trailing zeros in the coefficient
Canonical(x) ==
    /\ x.type = "Decimal"
    /\ IF IsZero(x.int) THEN x.int = <<0>> /\ x.exp = 0
       ELSE x.int[Len(x.int)] # 0 /\ x.int[1] # 0

\* what C12 says of a call btc_from_sats(n) with outcome res
BtcFromSatsAsClaimed(n, res) ==
    IF ~Integral(n) THEN ~res.ok /\ res.err = BTClibTypeError
    ELSE IF AboveMaxSatoshi(n)
    THEN res = Raise(BTClibValueError, "invalid satoshi amount")
    ELSE /\ res.ok
         /\ Canonical(res.val)
         /\ DecimalEq(res.val, Div1e8(n))

\* C12: btc_from_sats(n) fails with a Type error when n is a non-integral
\* numeric value, fails with the Value error 'invalid satoshi amount' when
\* |n| > MAX_SATOSHI, the boundaries accepted, and otherwise returns the
\* decimal n / 10^8 in canonical form, without trailing zeros.
C12_BtcFromSats ==
    (call.fn = "btc_from_sats"
        /\ call.args.sats.type \in {"int", "Decimal", "float"}) =>
        BtcFromSatsAsClaimed(call.args.sats, call.res)

\* C12 as amended: the same for n an int or a Decimal; for a float n of
\* integral value within the range the call fails with a TypeError
C12_BtcFromSatsIntOrDecimal ==
    (call.fn = "btc_from_sats"
        /\ call.args.sats.type \in {"int", "Decimal", "float"}) =>
        IF call.args.sats.type = "float" /\ Integral(call.args.sats)
           /\ ~AboveMaxSatoshi(call.args.sats)
        THEN ~call.res.ok /\ call.res.err = TypeError
        ELSE BtcFromSatsAsClaimed(call.args.sats, call.res)

\* 10000 satoshis are 0.0001 BTC
C12_Witness ==
    /\ call.fn = "btc_from_sats"
    /\ call.args.sats = PyInt(0, <<1, 0, 0, 0, 0>>)
    /\ call.res = Ok(Decimal(0, <<1>>, -4))

\* the boundaries are accepted, the next integers are not
C12_WitnessBoundary ==
    /\ call.fn = "btc_from_sats"
    /\ call.args.sats = PyInt(1, MAX_SATOSHI.int)
    /\ call.res = Ok(Decimal(1, MAX_BITCOIN.int, MAX_BITCOIN.exp))

\* C13: sats_from_btc accepts only a str, a Decimal or an int: a float
\* input is rejected, never converted to a satoshi amount.
C13_FloatRejected ==
    (call.fn = "sats_from_btc" /\ call.args.amount.type = "float") =>
        ~call.res.ok

C10_Witness ==
    /\ call.fn = "btc_from_sats"
    /\ OfAmount
    /\ call.args.amount.type = "str"
    /\ call.args.value.exp = -8
    /\ call.args.value.sign = 1
    /\ call.res.ok
    /\ call.res.val = normalize(call.args.value)
    /\ call.res.val # call.args.value

(***************************************************************************)
(* Byte strings and the byte-stream codecs (int.to_bytes, int.from_bytes,  *)
(* btclib/varint.py, btclib/varbytes.py).  A byte string is a sequence of  *)
(* integers in 0..255; an int is a PyInt, so that satoshi amounts keep     *)
(* their full width.                                                       *)
(***************************************************************************)
OverflowError == "OverflowError"

\* the quotient and the remainder of the digits ds divided by m
_divmod_small(ds, m) ==
    LET r[k \in 0..Len(ds)] ==
            IF k = 0 THEN 0 ELSE (r[k - 1] * 10 + ds[k]) % m
    IN  <<StripLeft([k \in 1..Len(ds) |-> (r[k - 1] * 10 + ds[k]) \div m]),
          r[Len(ds)]>>

\* the digits of ds * m + a
_muladd_small(ds, m, a) ==
    LET xs == Zeros(4) \o ds
        t[k \in 1..Len(xs)] ==
            xs[k] * m + (IF k = Len(xs) THEN a ELSE t[k + 1] \div 10)
    IN  StripLeft([k \in 1..Len(xs) |-> t[k] % 10])

\* the digits ds as length bytes, least significant first; <<>> \o <<-1>>
\* marks digits that do not fit
RECURSIVE _bytes_little(_, _)
_bytes_little(ds, length) ==
    IF length = 0 THEN (IF IsZero(ds) THEN <<>> ELSE <<-1>>)
    ELSE Let(_divmod_small(ds, 256), LAMBDA qr :
             <<qr[2]>> \o _bytes_little(qr[1], length - 1))

\* v.to_bytes(length, "little") of an unsigned int
to_bytes_little(v, length) ==
    IF v.sign = 1
    THEN Raise(OverflowError, "can't convert negative int to unsigned")
    ELSE Let(_bytes_little(v.int, length), LAMBDA o :
             IF Len(o) > length
             THEN Raise(OverflowError, "int too big to convert")
             ELSE Ok(o))

\* int.from_bytes(o, "little")
RECURSIVE _digits_little(_)
_digits_little(o) ==
    IF o = <<>> THEN <<0>>
    ELSE _muladd_small(_digits_little(Tail(o)), 256, Head(o))

from_bytes_little(o) == PyInt(0, _digits_little(o))

\* varint.encode(i) for i below 2^16
varint_encode(i) ==
    IF i < 253 THEN <<i>> ELSE <<253, i % 256, i \div 256>>

\* varint.decode(stream): the integer and the rest of the stream
varint_decode(stream) ==
    IF stream = <<>> THEN Raise(BTClibValueError, "not enough data")
    ELSE LET size == IF stream[1] < 253 THEN 0
                     ELSE IF stream[1] = 253 THEN 2
                     ELSE IF stream[1] = 254 THEN 4 ELSE 8
         IN  IF size = 0 THEN Ok(<<stream[1], Tail(stream)>>)
             ELSE IF Len(stream) < 1 + size
             THEN Raise(BTClibValueError, "not enough data")
             ELSE Let(_digits_little(SubSeq(stream, 2, 1 + size)),
                      LAMBDA ds :
                      Ok(<<IF Len(ds) > 6 THEN 1000000 ELSE NatOf(ds),
                           SubSeq(stream, 2 + size, Len(stream))>>))

\* varbytes.encode(o)
varbytes_encode(o) == varint_encode(Len(o)) \o o

\* varbytes.decode(stream): the payload and the rest of the stream
varbytes_decode(stream) ==
    Let(varint_decode(stream), LAMBDA i :
        IF ~i.ok THEN i
        ELSE IF Len(i.val[2]) < i.val[1]
        THEN Raise(BTClibValueError, "not enough data")
        ELSE Ok(<<SubSeq(i.val[2], 1, i.val[1]),
                  SubSeq(i.val[2], i.val[1] + 1, Len(i.val[2]))>>))

(***************************************************************************)
(* Transaction outputs (btclib/tx_out.py).                                 *)
(***************************************************************************)
TxOut_MAX_SATOSHI ==
    PyInt(0, <<2, 0, 9, 9, 9, 9, 9, 9, 9, 7, 6, 9, 0, 0, 0, 0>>)

TxOut(value, script_pubkey) ==
    [value |-> value, script_pubkey |-> script_pubkey]

\* TxOut.assert_valid without the upper bound: a plausible slip, used to
\* test C19
TxOut_assert_valid_unbounded(tx_out) ==
    IF tx_out.value.sign = 1 THEN Raise(BTClibValueError, "negative value")
    ELSE Ok(None)

TxOut_assert_valid(tx_out) ==
    IF tx_out.value.sign = 1 THEN Raise(BTClibValueError, "negative value")
    ELSE IF CmpNat(tx_out.value.int, TxOut_MAX_SATOSHI.int) = 1
    THEN Raise(BTClibValueError, "value too high")
    ELSE Ok(None)

\* TxOut.serialize with the value in 4 bytes: a plausible slip, used to
\* test C18
TxOut_serialize_u32(tx_out, assert_valid) ==
    LET valid == IF assert_valid THEN TxOut_assert_valid(tx_out) ELSE Ok(None)
        out == to_bytes_little(tx_out.value, 4)
    IN  IF ~valid.ok THEN valid
        ELSE IF ~out.ok THEN out
        ELSE Ok(out.val \o varbytes_encode(tx_out.script_pubkey))

TxOut_serialize(tx_out, assert_valid) ==
    LET valid == IF assert_valid THEN TxOut_assert_valid(tx_out) ELSE Ok(None)
        out == to_bytes_little(tx_out.value, 8)
    IN  IF ~valid.ok THEN valid
        ELSE IF ~out.ok THEN out
        ELSE Ok(out.val \o varbytes_encode(tx_out.script_pubkey))

\* stream.read(8) returns the bytes there are when fewer than 8 are left
TxOut_deserialize(data, assert_valid) ==
    LET k == IF Len(data) < 8 THEN Len(data) ELSE 8
        value == from_bytes_little(SubSeq(data, 1, k))
    IN  Let(varbytes_decode(SubSeq(data, k + 1, Len(data))),
            LAMBDA script_pubkey :
            IF ~script_pubkey.ok THEN script_pubkey
            ELSE LET tx_out == TxOut(value, script_pubkey.val[1])
                     valid == IF assert_valid THEN TxOut_assert_valid(tx_out)
                              ELSE Ok(None)
                 IN  IF ~valid.ok THEN valid ELSE Ok(tx_out))

(***************************************************************************)
(* The outputs a caller serializes: values at and beyond both ends of the  *)
(* range, scripts up to the first length that needs a 3-byte var-int.      *)
(***************************************************************************)
MaxScriptLen == 2
ScriptBytes == {0, 172}

TxOutValues ==
    {PyInt(0, ds) : ds \in {<<0>>, <<1>>, <<2, 5, 6>>, TxOut_MAX_SATOSHI.int,
                           AddOne(TxOut_MAX_SATOSHI.int),
                           _digits_little([i \in 1..8 |-> 255]),
                           AddOne(_digits_little([i \in 1..8 |-> 255]))}}
        \cup {PyInt(1, <<1>>)}

Scripts ==
    UNION {[1..l -> ScriptBytes] : l \in 0..MaxScriptLen}
        \cup {[i \in 1..253 |-> 0]}

TxOuts == {TxOut(v, sp) : v \in TxOutValues, sp \in Scripts}

\* data that is no serialization: cut short, or with a script cut short
TxOutData ==
    {<<>>, <<1, 0, 0>>, [i \in 1..8 |-> 0], [i \in 1..8 |-> 0] \o <<2, 172>>,
     [i \in 1..8 |-> 255] \o <<0>>, [i \in 1..8 |-> 0] \o <<1, 172, 7>>}

\* t.serialize(assert_valid), the first call of a session
TxOutSerialize ==
    /\ call.fn = "init"
    /\ \E t \in TxOuts, assert_valid \in BOOLEAN :
          call' = Call("TxOut.serialize",
                       [t |-> t, assert_valid |-> assert_valid],
                       TxOut_serialize(t, assert_valid))
    /\ UNCHANGED <<curve, prv, pub, hashed, sigs>>

\* TxOut.deserialize(data, assert_valid) of the bytes just emitted
TxOutDeserialize ==
    /\ call.fn = "TxOut.serialize"
    /\ call.res.ok
    /\ \E assert_valid \in BOOLEAN :
          call' = Call("TxOut.deserialize",
                       [data |-> call.res.val, t |-> call.args.t,
                        assert_valid |-> assert_valid],
                       TxOut_deserialize(call.res.val, assert_valid))
    /\ UNCHANGED <<curve, prv, pub, hashed, sigs>>

\* TxOut.deserialize(data, assert_valid) of other data
TxOutDeserializeAny ==
    /\ call.fn = "init"
    /\ \E data \in TxOutData, assert_valid \in BOOLEAN :
          call' = Call("TxOut.deserialize",
                       [data |-> data, assert_valid |-> assert_valid],
                       TxOut_deserialize(data, assert_valid))
    /\ UNCHANGED <<curve, prv, pub, hashed, sigs>>

TxOutNext ==
    \/ TxOutSerialize
    \/ TxOutDeserialize
    \/ TxOutDeserializeAny

TxOutSpec == Init /\ [][TxOutNext]_vars

\* 0 <= v <= MAX_SATOSHI, the bound of the amount module
ValidValue(v) == v.sign = 0 /\ CmpNat(v.int, MAX_SATOSHI.int) <= 0

\* the var-bytes encoding of o, shorter than 2^16 bytes
VarBytesOf(o) ==
    (IF Len(o) < 253 THEN <<Len(o)>>
     ELSE <<253, Len(o) % 256, Len(o) \div 256>>) \o o

\* C18: for every TxOut t with 0 <= value <= MAX_SATOSHI, t.serialize() is
\* the 8-byte little-endian value followed by the var-bytes encoding of
\* script_pubkey, and TxOut.deserialize(t.serialize()) equals t.
C18_TxOutRoundTrip ==
    /\ (call.fn = "TxOut.serialize" /\ ValidValue(call.args.t.value)) =>
          /\ call.res.ok
          /\ Len(call.res.val) = 8 + Len(VarBytesOf(call.args.t.script_pubkey))
          /\ \A i \in 1..8 : call.res.val[i] \in 0..255
          /\ from_bytes_little(SubSeq(call.res.val, 1, 8)) = call.args.t.value
          /\ SubSeq(call.res.val, 9, Len(call.res.val))
                = VarBytesOf(call.args.t.script_pubkey)
    /\ (call.fn = "TxOut.deserialize" /\ "t" \in DOMAIN call.args
           /\ ValidValue(call.args.t.value)) =>
          call.res = Ok(call.args.t)

\* the largest value with a script of 253 bytes comes back
C18_Witness ==
    /\ call.fn = "TxOut.deserialize"
    /\ "t" \in DOMAIN call.args
    /\ call.args.t.value = MAX_SATOSHI
    /\ Len(call.args.t.script_pubkey) = 253
    /\ call.args.data[9] = 253
    /\ call.res = Ok(call.args.t)

\* the value that the call is about: of the TxOut serialized, or encoded
\* in the first 8 bytes of the data deserialized
ValueAtStake ==
    IF call.fn = "TxOut.serialize" THEN call.args.t.value
    ELSE from_bytes_little(SubSeq(call.args.data, 1, 8))

\* C19: with assert_valid = true, TxOut.serialize and TxOut.deserialize fail
\* with a Value error when value < 0 or value > MAX_SATOSHI and accept the
\* values 0 and MAX_SATOSHI; every TxOut they return or emit bytes for has
\* its value in [0, MAX_SATOSHI]; the bound is 2,099,999,997,690,000, the
\* MAX_SATOSHI of the amount module.
C19_TxOutValueRange ==
    /\ TxOut_MAX_SATOSHI = MAX_SATOSHI
    /\ NatDigits(2099) \o NatDigits(999997) \o NatDigits(690000)
          = TxOut_MAX_SATOSHI.int
    /\ (call.fn = "TxOut.serialize" /\ call.args.assert_valid) =>
          /\ ~ValidValue(ValueAtStake) =>
                ~call.res.ok /\ call.res.err = BTClibValueError
          /\ ValueAtStake \in {PyInt(0, <<0>>), MAX_SATOSHI} => call.res.ok
    /\ (call.fn = "TxOut.deserialize" /\ call.args.assert_valid
           /\ Len(call.args.data) >= 8) =>
          /\ ~ValidValue(ValueAtStake) =>
                ~call.res.ok /\ call.res.err = BTClibValueError
          /\ call.res.ok => ValidValue(call.res.val.value)
          /\ (ValueAtStake \in {PyInt(0, <<0>>), MAX_SATOSHI}
                 /\ varbytes_decode(SubSeq(call.args.data, 9,
                                           Len(call.args.data))).ok) =>
                call.res.ok

\* MAX_SATOSHI + 1 is refused
C19_Witness ==
    /\ call.fn = "TxOut.serialize"
    /\ call.args.assert_valid
    /\ call.args.t.value = PyInt(0, AddOne(MAX_SATOSHI.int))
    /\ call.res = Raise(BTClibValueError, "value too high")

\* MAX_SATOSHI is accepted on the way back
C19_WitnessBoundary ==
    /\ call.fn = "TxOut.deserialize"
    /\ call.args.assert_valid
    /\ call.res.ok
    /\ call.res.val.value = MAX_SATOSHI

(***************************************************************************)
(* Collaborators of the PSBT input map (btclib/script.py, secpoint.py,     *)
(* der.py, tx.py, tx_in.py, psbt_out.py), from their descriptions.  The    *)
(* curve in use stands for secp256k1: a coordinate is 32 bytes, big        *)
(* endian, and a scalar of a signature fits one byte.                      *)
(***************************************************************************)
\* the recognized sighash flags: ALL, NONE, SINGLE, alone or with
\* ANYONECANPAY
SIGHASHES == {1, 2, 3, 129, 130, 131}

\* a dict: the sequence of its <<key, value>> items, in insertion order
DictKeys(d) == {d[i][1] : i \in 1..Len(d)}
DictItems(d) == {d[i] : i \in 1..Len(d)}

\* d[k] = v
DictSet(d, k, v) ==
    IF k \in DictKeys(d)
    THEN [i \in 1..Len(d) |-> IF d[i][1] = k THEN <<k, v>> ELSE d[i]]
    ELSE Append(d, <<k, v>>)

\* the integer of a 32-byte big-endian coordinate, -1 when it is 2^16 or
\* more, beyond every field in use
_coordinate(o) ==
    IF Len(o) # 32 \/ \E i \in 1..30 : o[i] # 0 THEN -1
    ELSE 256 * o[31] + o[32]

\* secpoint.point_from_octets(pubkey, ec): a compressed (33 bytes) or
\* uncompressed (65 bytes) point of the curve
point_from_octets(pubkey, ec) ==
    IF Len(pubkey) = 33 /\ pubkey[1] \in {2, 3}
    THEN LET x == _coordinate(Tail(pubkey))
         IN  IF x \in 0..(ec.p - 1) /\ has_root(x, ec)
             THEN Ok(<<x, IF pubkey[1] = 2 THEN y_even(x, ec)
                          ELSE ec.p - y_even(x, ec)>>)
             ELSE Raise(BTClibValueError, "point not on curve")
    ELSE IF Len(pubkey) = 65 /\ pubkey[1] = 4
    THEN LET Q == <<_coordinate(SubSeq(pubkey, 2, 33)),
                    _coordinate(SubSeq(pubkey, 34, 65))>>
         IN  IF is_on_curve(Q, ec) THEN Ok(Q)
             ELSE Raise(BTClibValueError, "point not on curve")
    ELSE Raise(BTClibValueError, "not a point")

\* der.deserialize(sig, ec): 0x30 L 0x02 Lr R 0x02 Ls S and an optional
\* sighash byte; r and s in [1, n-1] take one byte each
der_deserialize(sig, ec) ==
    IF /\ Len(sig) \in {8, 9}
       /\ sig[1] = 48 /\ sig[2] = 6
       /\ sig[3] = 2 /\ sig[4] = 1 /\ sig[5] \in 1..(ec.n - 1)
       /\ sig[6] = 2 /\ sig[7] = 1 /\ sig[8] \in 1..(ec.n - 1)
       /\ Len(sig) = 9 => sig[9] \in SIGHASHES
    THEN Ok(<<sig[5], sig[8], IF Len(sig) = 9 THEN <<sig[9]>> ELSE None>>)
    ELSE Raise(BTClibValueError, "invalid DER signature")

\* dsa.deserialize(sig, ec) of a byte string: der.deserialize(sig, ec)[0:2]
dsa_deserialize_octets(sig, ec) ==
    Let(der_deserialize(sig, ec), LAMBDA rs :
        IF ~rs.ok THEN rs ELSE Ok(<<rs.val[1], rs.val[2]>>))

\* a transaction, by its serialization
Tx(raw) == [raw |-> raw]
Tx_serialize(tx) == tx.raw
Tx_deserialize(data) ==
    IF data = <<>> THEN Raise(BTClibValueError, "not enough data")
    ELSE Ok(Tx(data))

\* tx_in.witness_serialize: the count and the items as var-bytes
RECURSIVE _concat(_)
_concat(ss) == IF ss = <<>> THEN <<>> ELSE Head(ss) \o _concat(Tail(ss))

witness_serialize(witness) ==
    varint_encode(Len(witness))
        \o _concat([i \in 1..Len(witness) |-> varbytes_encode(witness[i])])

\* count var-bytes items of the stream, after the items of acc
RECURSIVE _read_items(_, _, _)
_read_items(stream, count, acc) ==
    IF count = 0 THEN Ok(acc)
    ELSE Let(varbytes_decode(stream), LAMBDA item :
             IF ~item.ok THEN item
             ELSE _read_items(item.val[2], count - 1,
                              Append(acc, item.val[1])))

witness_deserialize(data) ==
    Let(varint_decode(data), LAMBDA count :
        IF ~count.ok THEN count
        ELSE _read_items(count.val[2], count.val[1], <<>>))

\* psbt_out._serialize_dict_bytes_bytes: a record for each item
_serialize_dict_bytes_bytes(d, marker) ==
    _concat([i \in 1..Len(d) |->
                varbytes_encode(marker \o d[i][1]) \o varbytes_encode(d[i][2])])

\* psbt_out._deserialize_proprietary(key, value): the dict of the one entry
\* of the record, {owner: {key: value}}
_deserialize_proprietary(key, value) ==
    Let(varint_decode(Tail(key)), LAMBDA prefix :
        IF ~prefix.ok THEN prefix
        ELSE Ok(<< <<prefix.val[1], << <<prefix.val[2], value>> >> >> >>))

\* psbt_out._serialize_proprietary: a record for each entry of each owner
_serialize_proprietary(d, marker) ==
    _concat([i \in 1..Len(d) |->
                _concat([j \in 1..Len(d[i][2]) |->
                            varbytes_encode(marker \o varint_encode(d[i][1])
                                                \o d[i][2][j][1])
                                \o varbytes_encode(d[i][2][j][2])])])

\* psbt_out._assert_valid_bip32_derivs: the keys are points, the paths a
\* whole number of 4-byte steps
RECURSIVE _assert_valid_bip32_derivs(_, _)
_assert_valid_bip32_derivs(bip32_derivs, ec) ==
    IF bip32_derivs = <<>> THEN Ok(None)
    ELSE Let(point_from_octets(Head(bip32_derivs)[1], ec), LAMBDA Q :
             IF ~Q.ok THEN Q
             ELSE IF Len(Head(bip32_derivs)[2]) % 4 # 0
             THEN Raise(BTClibValueError, "invalid BIP32 path")
             ELSE _assert_valid_bip32_derivs(Tail(bip32_derivs), ec))

\* str.encode("utf-8") of code points below 256, and bytes.decode("utf-8")
UnicodeDecodeError == "UnicodeDecodeError"

str_encode(chars) ==
    _concat([i \in 1..Len(chars) |->
                IF chars[i] < 128 THEN <<chars[i]>>
                ELSE <<192 + (chars[i] \div 64), 128 + (chars[i] % 64)>>])

RECURSIVE bytes_decode(_)
bytes_decode(o) ==
    IF o = <<>> THEN Ok(<<>>)
    ELSE IF o[1] < 128
    THEN Let(bytes_decode(Tail(o)), LAMBDA rest :
             IF ~rest.ok THEN rest ELSE Ok(<<o[1]>> \o rest.val))
    ELSE IF o[1] \in 194..195 /\ Len(o) >= 2 /\ o[2] \in 128..191
    THEN Let(bytes_decode(Tail(Tail(o))), LAMBDA rest :
             IF ~rest.ok THEN rest
             ELSE Ok(<<(o[1] - 192) * 64 + o[2] - 128>> \o rest.val))
    ELSE Raise(UnicodeDecodeError, "invalid utf-8")

(***************************************************************************)
(* PSBT input maps (btclib/psbt_in.py).                                    *)
(***************************************************************************)
PSBT_IN_NON_WITNESS_UTXO == <<0>>
PSBT_IN_WITNESS_UTXO == <<1>>
PSBT_IN_PARTIAL_SIG == <<2>>
PSBT_IN_SIGHASH_TYPE == <<3>>
PSBT_IN_REDEEM_SCRIPT == <<4>>
PSBT_IN_WITNESS_SCRIPT == <<5>>
PSBT_IN_BIP32_DERIVATION == <<6>>
PSBT_IN_FINAL_SCRIPTSIG == <<7>>
PSBT_IN_FINAL_SCRIPTWITNESS == <<8>>
PSBT_IN_POR_COMMITMENT == <<9>>
PSBT_IN_PROPRIETARY == <<252>>

\* PsbtIn(): the fields and their defaults
PsbtIn ==
    [non_witness_utxo |-> None, witness_utxo |-> None,
     partial_signatures |-> <<>>, sighash |-> None,
     redeem_script |-> <<>>, witness_script |-> <<>>,
     bip32_derivs |-> <<>>, final_script_sig |-> <<>>,
     final_script_witness |-> <<>>, por_commitment |-> None,
     proprietary |-> <<>>, unknown |-> <<>>]

\* v in SIGHASHES, for a Python int v
InSighashes(v) ==
    v.sign = 0 /\ \E flag \in SIGHASHES : CmpNat(v.int, NatDigits(flag)) = 0

RECURSIVE _assert_valid_partial_signatures(_, _)
_assert_valid_partial_signatures(partial_signatures, ec) ==
    IF partial_signatures = <<>> THEN Ok(None)
    ELSE Let(point_from_octets(Head(partial_signatures)[1], ec), LAMBDA Q :
             IF ~Q.ok THEN Q
             ELSE Let(dsa_deserialize_octets(Head(partial_signatures)[2], ec),
                      LAMBDA sig :
                      IF ~sig.ok THEN sig
                      ELSE _assert_valid_partial_signatures(
                               Tail(partial_signatures), ec)))

\* PsbtIn.assert_valid that does not look at the partial signatures: a
\* plausible slip, used to test C16
PsbtIn_assert_valid_unsigned(self, ec) ==
    LET utxo == IF self.witness_utxo # None
                THEN TxOut_assert_valid(self.witness_utxo[1]) ELSE Ok(None)
    IN  IF ~utxo.ok THEN utxo
        ELSE IF self.sighash # None /\ ~InSighashes(self.sighash[1])
        THEN Raise(AssertionError, "invalid sighash")
        ELSE IF self.por_commitment # None
                /\ str_encode(self.por_commitment[1]) = <<>>
        THEN Raise(AssertionError, "")
        ELSE _assert_valid_bip32_derivs(self.bip32_derivs, ec)

PsbtIn_assert_valid(self, ec) ==
    LET utxo == IF self.witness_utxo # None
                THEN TxOut_assert_valid(self.witness_utxo[1]) ELSE Ok(None)
    IN  IF ~utxo.ok THEN utxo
        ELSE IF self.sighash # None /\ ~InSighashes(self.sighash[1])
        THEN Raise(AssertionError, "invalid sighash")
        ELSE IF self.por_commitment # None
                /\ str_encode(self.por_commitment[1]) = <<>>
        THEN Raise(AssertionError, "")
        ELSE Let(_assert_valid_partial_signatures(self.partial_signatures, ec),
                 LAMBDA sigs_valid :
                 IF ~sigs_valid.ok THEN sigs_valid
                 ELSE _assert_valid_bip32_derivs(self.bip32_derivs, ec))

\* the body of the loop of PsbtIn.deserialize: out after the item key, value
PsbtIn_set(out, key, value) ==
    LET T == SubSeq(key, 1, IF key = <<>> THEN 0 ELSE 1)
        Field(f, v) ==
            IF ~v.ok THEN v ELSE Ok([out EXCEPT ![f] = v.val])
        OneByteKey(r) ==
            IF Len(key) # 1 THEN Raise(AssertionError, "invalid key length")
            ELSE r
        PubkeyKey(r) ==
            IF Len(key) \notin {34, 66}
            THEN Raise(AssertionError, "invalid pubkey length")
            ELSE r
        Some(v) == IF ~v.ok THEN v ELSE Ok(<<v.val>>)
    IN  IF T = PSBT_IN_NON_WITNESS_UTXO
        THEN OneByteKey(Field("non_witness_utxo", Some(Tx_deserialize(value))))
        ELSE IF T = PSBT_IN_WITNESS_UTXO
        THEN OneByteKey(Field("witness_utxo",
                              Some(TxOut_deserialize(value, TRUE))))
        ELSE IF T = PSBT_IN_PARTIAL_SIG
        THEN PubkeyKey(Field("partial_signatures",
                 Ok(DictSet(out.partial_signatures, Tail(key), value))))
        ELSE IF T = PSBT_IN_SIGHASH_TYPE
        THEN OneByteKey(IF Len(value) # 4 THEN Raise(AssertionError, "")
                        ELSE Field("sighash", Ok(<<from_bytes_little(value)>>)))
        ELSE IF T = PSBT_IN_FINAL_SCRIPTSIG
        THEN OneByteKey(Field("final_script_sig", Ok(value)))
        ELSE IF T = PSBT_IN_FINAL_SCRIPTWITNESS
        THEN OneByteKey(Field("final_script_witness",
                              witness_deserialize(value)))
        ELSE IF T = PSBT_IN_POR_COMMITMENT
        THEN OneByteKey(Field("por_commitment", Some(bytes_decode(value))))
        ELSE IF T = PSBT_IN_REDEEM_SCRIPT
        THEN OneByteKey(Field("redeem_script", Ok(value)))
        ELSE IF T = PSBT_IN_WITNESS_SCRIPT
        THEN OneByteKey(Field("witness_script", Ok(value)))
        ELSE IF T = PSBT_IN_BIP32_DERIVATION
        THEN PubkeyKey(Field("bip32_derivs",
                 Ok(DictSet(out.bip32_derivs, Tail(key), value))))
        ELSE IF T = PSBT_IN_PROPRIETARY
        THEN Field("proprietary", _deserialize_proprietary(key, value))
        ELSE Field("unknown", Ok(DictSet(out.unknown, key, value)))

\* the loop of PsbtIn.deserialize over the items left, from out
RECURSIVE PsbtIn_items(_, _)
PsbtIn_items(out, items) ==
    IF items = <<>> THEN Ok(out)
    ELSE Let(PsbtIn_set(out, Head(items)[1], Head(items)[2]), LAMBDA next :
             IF ~next.ok THEN next ELSE PsbtIn_items(next.val, Tail(items)))

PsbtIn_deserialize(input_map, assert_valid, ec) ==
    Let(PsbtIn_items(PsbtIn, input_map), LAMBDA out :
        IF ~out.ok \/ ~assert_valid THEN out
        ELSE Let(PsbtIn_assert_valid(out.val, ec), LAMBDA valid :
                 IF ~valid.ok THEN valid ELSE out))

PsbtIn_serialize(self, assert_valid, ec) ==
    LET valid == IF assert_valid THEN PsbtIn_assert_valid(self, ec)
                 ELSE Ok(None)
        utxo == IF self.witness_utxo # None
                THEN TxOut_serialize(self.witness_utxo[1], TRUE) ELSE Ok(<<>>)
        sighash == IF self.sighash # None /\ ~IsZero(self.sighash[1].int)
                   THEN to_bytes_little(self.sighash[1], 4) ELSE Ok(<<>>)
        Record(type, value) ==
            IF value = <<>> THEN <<>>
            ELSE <<1>> \o type \o varbytes_encode(value)
    IN  IF ~valid.ok THEN valid
        ELSE IF ~utxo.ok THEN utxo
        ELSE IF ~sighash.ok THEN sighash
        ELSE Ok((IF self.non_witness_utxo # None
                 THEN <<1>> \o PSBT_IN_NON_WITNESS_UTXO \o varbytes_encode(
                          Tx_serialize(self.non_witness_utxo[1]))
                 ELSE <<>>)
                \o (IF self.witness_utxo # None
                    THEN <<1>> \o PSBT_IN_WITNESS_UTXO
                             \o varbytes_encode(utxo.val)
                    ELSE <<>>)
                \o _serialize_dict_bytes_bytes(self.partial_signatures,
                                               PSBT_IN_PARTIAL_SIG)
                \o (IF sighash.val # <<>>
                    THEN <<1>> \o PSBT_IN_SIGHASH_TYPE \o <<4>> \o sighash.val
                    ELSE <<>>)
                \o Record(PSBT_IN_REDEEM_SCRIPT, self.redeem_script)
                \o Record(PSBT_IN_WITNESS_SCRIPT, self.witness_script)
                \o Record(PSBT_IN_FINAL_SCRIPTSIG, self.final_script_sig)
                \o (IF self.final_script_witness # <<>>
                    THEN <<1>> \o PSBT_IN_FINAL_SCRIPTWITNESS \o varbytes_encode(
                             witness_serialize(self.final_script_witness))
                    ELSE <<>>)
                \o (IF self.por_commitment # None
                       /\ self.por_commitment[1] # <<>>
                    THEN <<1>> \o PSBT_IN_POR_COMMITMENT \o varbytes_encode(
                             str_encode(self.por_commitment[1]))
                    ELSE <<>>)
                \o _serialize_dict_bytes_bytes(self.bip32_derivs,
                                               PSBT_IN_BIP32_DERIVATION)
                \o _serialize_proprietary(self.proprietary,
                                          PSBT_IN_PROPRIETARY)
                \o _serialize_dict_bytes_bytes(self.unknown, <<>>))

\* the key/value records of a serialized map, as the items of a dict
RECURSIVE deserialize_map(_, _)
deserialize_map(data, partial_map) ==
    IF data = <<>> THEN Ok(partial_map)
    ELSE Let(varbytes_decode(data), LAMBDA key :
             IF ~key.ok THEN key
             ELSE Let(varbytes_decode(key.val[2]), LAMBDA value :
                      IF ~value.ok THEN value
                      ELSE IF key.val[1] \in DictKeys(partial_map)
                      THEN Raise(AssertionError, "duplicate keys")
                      ELSE deserialize_map(value.val[2],
                               Append(partial_map,
                                      <<key.val[1], value.val[1]>>))))

(***************************************************************************)
(* The PSBT inputs a caller builds and the maps a caller hands over: every *)
(* field set alone and with one other field, well formed and not.  The     *)
(* keys and values of a proprietary entry are strings of hex digits, kept  *)
(* as the bytes they spell.                                                *)
(***************************************************************************)
\* a coordinate in 32 bytes, and SEC keys: compressed, uncompressed, of a
\* wrong prefix, of a wrong size
_octets32(x) == [i \in 1..32 |-> IF i = 32 THEN x ELSE 0]

SecKeys(ec) ==
    {<<2>> \o _octets32(x) : x \in 0..2}
        \cup {<<4>> \o _octets32(ec.G[1]) \o _octets32(ec.G[2]),
              <<5>> \o _octets32(ec.G[1]),
              <<2>> \o [i \in 1..31 |-> 1]}

\* DER signatures and byte strings that are none
DerSigs ==
    {<<48, 6, 2, 1, 1, 2, 1, 1>>, <<48, 6, 2, 1, 3, 2, 1, 2, 1>>,
     <<48, 6, 2, 1, 0, 2, 1, 1>>, <<48, 6, 2, 1, 1, 2, 1, 13>>,
     <<48, 6, 2, 1, 1>>}

SighashInts ==
    {PyInt(0, ds) : ds \in {<<0>>, <<1>>, <<4>>, <<1, 3, 1>>,
                            <<4, 2, 9, 4, 9, 6, 7, 2, 9, 6>>}}

PsbtTxOuts ==
    {TxOut(PyInt(0, <<2, 5, 6>>), <<172>>),
     TxOut(PyInt(0, AddOne(TxOut_MAX_SATOSHI.int)), <<>>)}

\* the values a caller sets each field to
PsbtInOptions(ec) ==
    {<<"non_witness_utxo", <<Tx(<<1, 0>>)>> >>}
        \cup {<<"witness_utxo", <<t>> >> : t \in PsbtTxOuts}
        \cup {<<"partial_signatures", << <<k, sig>> >> >> :
                 k \in SecKeys(ec), sig \in DerSigs}
        \cup {<<"partial_signatures",
                << <<(<<2>> \o _octets32(0)), <<48, 6, 2, 1, 1, 2, 1, 1>> >>,
                   <<(<<2>> \o _octets32(1)), <<48, 6, 2, 1, 1, 2, 1, 1>> >> >> >>}
        \cup {<<"sighash", <<v>> >> : v \in SighashInts}
        \cup {<<"redeem_script", <<172>> >>, <<"witness_script", <<0, 172>> >>,
              <<"final_script_sig", <<81>> >>,
              <<"final_script_witness", << <<1, 2>> >> >>,
              <<"final_script_witness", << <<>>, <<7>> >> >>}
        \cup {<<"por_commitment", <<chars>> >> :
                 chars \in {<<>>, <<97>>, <<97, 233>>}}
        \cup {<<"bip32_derivs", << <<k, path>> >> >> :
                 k \in SecKeys(ec), path \in {<<1, 2, 3, 4>>, <<1, 2, 3>>}}
        \cup {<<"proprietary", d>> :
                 d \in {<< <<1, << <<(<<7>>), <<9>> >> >> >> >>,
                        << <<1, << <<(<<7>>), <<9>> >> >> >>,
                           <<2, << <<(<<7>>), <<8>> >> >> >> >>,
                        << <<1, << <<(<<7>>), <<9>> >>,
                                   <<(<<8>>), <<9>> >> >> >> >>}}
        \cup {<<"unknown", d>> :
                 d \in {<< <<(<<10, 1>>), <<5>> >> >>,
                        << <<(<<10, 1>>), <<5>> >>, <<(<<11>>), <<>> >> >>}}

PsbtIns(ec) ==
    {[[PsbtIn EXCEPT ![o1[1]] = o1[2]] EXCEPT ![o2[1]] = o2[2]] :
        o1 \in PsbtInOptions(ec), o2 \in PsbtInOptions(ec)}

\* the items a caller puts in an input map
PsbtInItems(ec) ==
    {<<(<<0>>), <<1, 0>> >>, <<(<<0, 5>>), <<1, 0>> >>, <<(<<0>>), <<>> >>,
     <<(<<1>>), <<0, 1, 0, 0, 0, 0, 0, 0, 1, 172>> >>,
     <<(<<1>>), [i \in 1..8 |-> 255] \o <<0>> >>,
     <<(<<3>>), <<1, 0, 0, 0>> >>, <<(<<3>>), <<131, 0, 0, 0>> >>,
     <<(<<3>>), <<4, 0, 0, 0>> >>, <<(<<3>>), <<0, 0, 0, 0>> >>,
     <<(<<3>>), <<1>> >>, <<(<<3, 1>>), <<1, 0, 0, 0>> >>,
     <<(<<4>>), <<172>> >>, <<(<<5>>), <<0, 172>> >>, <<(<<5, 0>>), <<172>> >>,
     <<(<<7>>), <<81>> >>, <<(<<8>>), <<1, 1, 7>> >>, <<(<<8>>), <<2, 1, 7>> >>,
     <<(<<9>>), <<97>> >>, <<(<<9>>), <<255>> >>, <<(<<9>>), <<>> >>,
     <<(<<252, 1, 7>>), <<9>> >>, <<(<<252, 2, 7>>), <<8>> >>,
     <<(<<252>>), <<9>> >>,
     <<(<<10, 1>>), <<5>> >>, <<(<<>>), <<1>> >>}
        \cup {<<(<<2>> \o k), sig>> : k \in SecKeys(ec), sig \in DerSigs}
        \cup {<<(<<6>> \o k), <<1, 2, 3, 4>> >> : k \in SecKeys(ec)}

PsbtInputMaps(ec) ==
    {<<i1>> : i1 \in PsbtInItems(ec)}
        \cup {m \in {<<i1, i2>> : i1, i2 \in PsbtInItems(ec)} :
                 m[1][1] # m[2][1]}

\* x.serialize(assert_valid), the first call of a session
PsbtInSerialize ==
    /\ call.fn = "init"
    /\ \E x \in PsbtIns(curve), assert_valid \in BOOLEAN :
          call' = Call("PsbtIn.serialize",
                       [x |-> x, assert_valid |-> assert_valid],
                       PsbtIn_serialize(x, assert_valid, curve))
    /\ UNCHANGED <<curve, prv, pub, hashed, sigs>>

\* PsbtIn.deserialize(input_map, assert_valid) of a map of the caller
PsbtInDeserialize ==
    /\ call.fn = "init"
    /\ \E input_map \in PsbtInputMaps(curve), assert_valid \in BOOLEAN :
          call' = Call("PsbtIn.deserialize",
                       [input_map |-> input_map, assert_valid |-> assert_valid],
                       PsbtIn_deserialize(input_map, assert_valid, curve))
    /\ UNCHANGED <<curve, prv, pub, hashed, sigs>>

\* the map of the records of x.serialize() and PsbtIn.deserialize of it
PsbtIn_round_trip(x, ec) ==
    Let(deserialize_map(PsbtIn_serialize(x, TRUE, ec).val, <<>>),
        LAMBDA input_map :
        [input_map |-> input_map.val,
         res |-> IF ~input_map.ok THEN input_map
                 ELSE PsbtIn_deserialize(input_map.val, TRUE, ec)])

\* PsbtIn.deserialize of the records of x.serialize(), for x that
\* assert_valid accepts
PsbtInRoundTrip ==
    /\ call.fn = "init"
    /\ \E x \in PsbtIns(curve) :
          /\ PsbtIn_assert_valid(x, curve).ok
          /\ \E rt \in {PsbtIn_round_trip(x, curve)} :
                call' = Call("PsbtIn.deserialize",
                             [x |-> x, input_map |-> rt.input_map,
                              assert_valid |-> TRUE], rt.res)
    /\ UNCHANGED <<curve, prv, pub, hashed, sigs>>

PsbtNext == PsbtInSerialize \/ PsbtInDeserialize \/ PsbtInRoundTrip

PsbtSpec == Init /\ [][PsbtNext]_vars

(***************************************************************************)
(* Properties of the PSBT input map.                                       *)
(***************************************************************************)
OfPsbtIn == call.fn \in {"PsbtIn.serialize", "PsbtIn.deserialize"}

\* the PsbtIn that a call with assert_valid = true accepted: the one it
\* returned, or the one it emitted bytes for
Accepted ==
    IF call.fn = "PsbtIn.serialize" THEN call.args.x ELSE call.res.val

BothUtxos(x) == x.non_witness_utxo # None /\ x.witness_utxo # None

\* C14: every PsbtIn that PsbtIn.deserialize with assert_valid = true
\* returns, and every PsbtIn that PsbtIn.serialize with assert_valid = true
\* emits bytes for, has at most one of non_witness_utxo and witness_utxo
\* set.
C14_AtMostOneUtxo ==
    (OfPsbtIn /\ call.args.assert_valid /\ call.res.ok)
        => ~BothUtxos(Accepted)

\* equality of two PsbtIn, the dicts as sets of items
PsbtInEqual(x, y) ==
    /\ \A f \in {"non_witness_utxo", "witness_utxo", "sighash",
                 "redeem_script", "witness_script", "final_script_sig",
                 "final_script_witness", "por_commitment"} : x[f] = y[f]
    /\ \A f \in {"partial_signatures", "bip32_derivs", "unknown"} :
          DictItems(x[f]) = DictItems(y[f])
    /\ {<<e[1], DictItems(e[2])>> : e \in DictItems(x.proprietary)}
           = {<<e[1], DictItems(e[2])>> : e \in DictItems(y.proprietary)}

OfRoundTrip == call.fn = "PsbtIn.deserialize" /\ "x" \in DOMAIN call.args

\* C15: for every PsbtIn x that assert_valid accepts, PsbtIn.deserialize of
\* the key/value records of x.serialize() returns a PsbtIn equal to x in
\* every field.
C15_PsbtInRoundTrip ==
    OfRoundTrip => call.res.ok /\ PsbtInEqual(call.res.val, call.args.x)

\* the entries of a proprietary dict
Entries(proprietary) ==
    UNION {{<<e[1], kv>> : kv \in DictItems(e[2])} :
              e \in DictItems(proprietary)}

\* the round trip keeps every field of an x of at most one proprietary
\* entry, and the last proprietary entry of any x
C15_RoundTripButProprietary ==
    OfRoundTrip =>
        /\ call.res.ok
        /\ PsbtInEqual([call.res.val EXCEPT !.proprietary = <<>>],
                       [call.args.x EXCEPT !.proprietary = <<>>])
        /\ Entries(call.res.val.proprietary) \subseteq
               Entries(call.args.x.proprietary)
        /\ Cardinality(Entries(call.args.x.proprietary)) <= 1
               => PsbtInEqual(call.res.val, call.args.x)

\* a SEC point of the curve: 33 or 65 bytes
ValidSecPoint(k, ec) ==
    \/ /\ Len(k) = 33 /\ k[1] \in {2, 3}
       /\ \E y \in 0..(ec.p - 1) : is_on_curve(<<_coordinate(Tail(k)), y>>, ec)
    \/ /\ Len(k) = 65 /\ k[1] = 4
       /\ is_on_curve(<<_coordinate(SubSeq(k, 2, 33)),
                        _coordinate(SubSeq(k, 34, 65))>>, ec)

\* the sighash and the partial signatures that the call is about: of the
\* PsbtIn to serialize, or of the items of the map to deserialize
SighashesAtStake ==
    IF call.fn = "PsbtIn.serialize"
    THEN {call.args.x.sighash[i] : i \in 1..Len(call.args.x.sighash)}
    ELSE {from_bytes_little(item[2]) :
             item \in {i \in DictItems(call.args.input_map) :
                          i[1] = PSBT_IN_SIGHASH_TYPE /\ Len(i[2]) = 4}}

PartialSigsAtStake ==
    IF call.fn = "PsbtIn.serialize"
    THEN DictItems(call.args.x.partial_signatures)
    ELSE {<<Tail(item[1]), item[2]>> :
             item \in {i \in DictItems(call.args.input_map) :
                          i[1] # <<>> /\ <<i[1][1]>> = PSBT_IN_PARTIAL_SIG}}

BadSighash == \E v \in SighashesAtStake : ~InSighashes(v)
BadPartialSig ==
    \E item \in PartialSigsAtStake :
        ~ValidSecPoint(item[1], curve) \/ ~der_deserialize(item[2], curve).ok

\* C16: PsbtIn.deserialize and PsbtIn.serialize with assert_valid = true
\* fail, returning no PsbtIn and no bytes, when the sighash is no recognized
\* flag, or a partial-signature key is no valid SEC point, or a
\* partial-signature value does not DER-decode.
C16_InvalidRejected ==
    (OfPsbtIn /\ call.args.assert_valid /\ (BadSighash \/ BadPartialSig))
        => ~call.res.ok /\ call.res.val = <<>>

C16_Witness ==
    /\ call.fn = "PsbtIn.serialize" /\ call.args.assert_valid
    /\ ~BadSighash /\ BadPartialSig
    /\ call.args.x.sighash # None
    /\ ~call.res.ok

C16_WitnessDeserialize ==
    /\ call.fn = "PsbtIn.deserialize" /\ call.args.assert_valid
    /\ Len(call.args.input_map) = 2
    /\ BadSighash /\ ~BadPartialSig /\ PartialSigsAtStake # {}
    /\ ~call.res.ok

\* an item malformed in one of four ways: a sighash of no recognized flag,
\* a sighash value not 4 bytes long, a key of a recognized type of the wrong
\* length, a partial-signature pubkey of the wrong size
Malformed(item) ==
    LET key == item[1]
        type == IF key = <<>> THEN << >> ELSE <<key[1]>>
    IN  \/ /\ key = PSBT_IN_SIGHASH_TYPE
           /\ Len(item[2]) # 4 \/ ~InSighashes(from_bytes_little(item[2]))
        \/ /\ type \in {PSBT_IN_NON_WITNESS_UTXO, PSBT_IN_WITNESS_UTXO,
                        PSBT_IN_SIGHASH_TYPE, PSBT_IN_REDEEM_SCRIPT,
                        PSBT_IN_WITNESS_SCRIPT, PSBT_IN_FINAL_SCRIPTSIG,
                        PSBT_IN_FINAL_SCRIPTWITNESS, PSBT_IN_POR_COMMITMENT}
           /\ Len(key) # 1
        \/ /\ type \in {PSBT_IN_PARTIAL_SIG, PSBT_IN_BIP32_DERIVATION}
           /\ Len(key) \notin {34, 66}

\* C17: a PSBT input rejected for an unknown sighash flag, a sighash value
\* not 4 bytes long, a key of a recognized type of the wrong length or a
\* partial-signature pubkey of the wrong size is rejected with a Value
\* error.
C17_RejectedWithValueError ==
    (/\ call.fn = "PsbtIn.deserialize" /\ call.args.assert_valid
     /\ \E item \in DictItems(call.args.input_map) :
           /\ Malformed(item)
           /\ \A other \in DictItems(call.args.input_map) \ {item} :
                 PsbtIn_deserialize(<<other>>, TRUE, curve).ok)
        => ~call.res.ok /\ call.res.err = BTClibValueError

\* such an input is rejected
C17_MalformedRejected ==
    (/\ call.fn = "PsbtIn.deserialize" /\ call.args.assert_valid
     /\ \E item \in DictItems(call.args.input_map) : Malformed(item))
        => ~call.res.ok

(***************************************************************************)
(* Script codec and scriptPubKey payloads (btclib/script.py and            *)
(* btclib/scriptpubkey.py), from their description and from the calls of   *)
(* btclib/tests/test_scriptpubkey.py.  A token of a script is an opcode    *)
(* name [op |-> name], a small integer [int |-> i] or a byte string        *)
(* [data |-> octets].                                                      *)
(***************************************************************************)
OP_CODES ==
    [OP_RETURN |-> 106, OP_DUP |-> 118, OP_EQUAL |-> 135,
     OP_EQUALVERIFY |-> 136, OP_HASH160 |-> 169, OP_CHECKSIG |-> 172,
     OP_CHECKMULTISIG |-> 174]

Op(name) == [op |-> name]
OpInt(i) == [int |-> i]
Data(octets) == [data |-> octets]

\* a Script: bytes or a list of tokens
Bytes(octets) == [bytes |-> octets]
List(tokens) == [list |-> tokens]

\* op_pushdata that always takes the OP_PUSHDATA1 form: a plausible slip,
\* used to test C20
op_pushdata_long(octets) == <<76, Len(octets)>> \o octets

\* op_pushdata with the length in one byte whatever it is: a plausible
\* slip, used to test C23
op_pushdata_u8(octets) ==
    IF Len(octets) <= 75 THEN <<Len(octets)>> \o octets
    ELSE <<76, Len(octets) % 256>> \o octets

\* op_pushdata: the shortest push of a byte string
op_pushdata(octets) ==
    IF Len(octets) <= 75 THEN <<Len(octets)>> \o octets
    ELSE IF Len(octets) <= 255 THEN <<76, Len(octets)>> \o octets
    ELSE IF Len(octets) <= 65535
    THEN <<77, Len(octets) % 256, Len(octets) \div 256>> \o octets
    ELSE <<78, Len(octets) % 256, (Len(octets) \div 256) % 256,
           (Len(octets) \div 65536) % 256, Len(octets) \div 16777216>>
             \o octets

\* op_int: OP_0, OP_1NEGATE, OP_1 ... OP_16
op_int(i) == IF i = 0 THEN <<0>> ELSE IF i = -1 THEN <<79>> ELSE <<80 + i>>

\* script.encode(script) of a list of tokens
script_encode(script) ==
    _concat([k \in 1..Len(script) |->
                IF "op" \in DOMAIN script[k] THEN <<OP_CODES[script[k].op]>>
                ELSE IF "int" \in DOMAIN script[k] THEN op_int(script[k].int)
                ELSE op_pushdata(script[k].data)])

\* script.decode(script): the tokens of the bytes left, after those of acc
RECURSIVE _decode(_, _)
_decode(s, acc) ==
    IF s = <<>> THEN Ok(acc)
    ELSE IF s[1] = 0 THEN _decode(Tail(s), Append(acc, OpInt(0)))
    ELSE IF s[1] = 79 THEN _decode(Tail(s), Append(acc, OpInt(-1)))
    ELSE IF s[1] \in 81..96 THEN _decode(Tail(s), Append(acc, OpInt(s[1] - 80)))
    ELSE IF s[1] <= 75
    THEN IF Len(s) < 1 + s[1] THEN Raise(ValueError, "not enough data")
         ELSE _decode(SubSeq(s, 2 + s[1], Len(s)),
                      Append(acc, Data(SubSeq(s, 2, 1 + s[1]))))
    ELSE IF s[1] = 76
    THEN IF Len(s) < 2 \/ Len(s) < 2 + s[2]
         THEN Raise(ValueError, "not enough data")
         ELSE _decode(SubSeq(s, 3 + s[2], Len(s)),
                      Append(acc, Data(SubSeq(s, 3, 2 + s[2]))))
    ELSE IF s[1] = 77
    THEN IF Len(s) < 3 \/ Len(s) < 3 + s[2] + 256 * s[3]
         THEN Raise(ValueError, "not enough data")
         ELSE _decode(SubSeq(s, 4 + s[2] + 256 * s[3], Len(s)),
                      Append(acc, Data(SubSeq(s, 4, 3 + s[2] + 256 * s[3]))))
    ELSE IF \E name \in DOMAIN OP_CODES : OP_CODES[name] = s[1]
    THEN _decode(Tail(s),
                 Append(acc, Op(CHOOSE name \in DOMAIN OP_CODES :
                                    OP_CODES[name] = s[1])))
    ELSE Raise(ValueError, "unknown opcode")

script_decode(s) == _decode(s, <<>>)

\* utils.hash160 and utils.sha256: a digest of 20 and of 32 bytes
_digest(octets, size) ==
    LET seed == IF octets = <<>> THEN 0
                ELSE Len(octets) + 31 * octets[1] + 7 * octets[Len(octets)]
    IN  [i \in 1..size |-> (seed + i) % 256]

hash160(octets) == _digest(octets, 20)
sha256(octets) == _digest(octets, 32)

\* a < b for byte strings of the same length
LexLess(a, b) ==
    \E i \in 1..Len(a) : a[i] < b[i] /\ \A j \in 1..(i - 1) : a[j] = b[j]

\* sorted(pubkeys)
RECURSIVE sorted(_)
sorted(pubkeys) ==
    IF pubkeys = <<>> THEN <<>>
    ELSE LET rest == sorted(Tail(pubkeys))
             lower == {i \in 1..Len(rest) : LexLess(rest[i], Head(pubkeys))}
             n == Cardinality(lower)
         IN  SubSeq(rest, 1, n) \o <<Head(pubkeys)>>
                 \o SubSeq(rest, n + 1, Len(rest))

\* payload_from_pubkeys that leaves the keys as given: a plausible slip,
\* used to test C21
payload_from_pubkeys_unsorted(pubkeys, lexicographic_sort) ==
    IF \E i \in 1..Len(pubkeys) : Len(pubkeys[i]) # 65 \/ pubkeys[i][1] # 4
    THEN Raise(ValueError, "invalid pubkey size")
    ELSE Ok(_concat(pubkeys))

\* payload_from_pubkeys(pubkeys, lexicographic_sort): the uncompressed keys,
\* sorted on request, one after the other
payload_from_pubkeys(pubkeys, lexicographic_sort) ==
    IF \E i \in 1..Len(pubkeys) : Len(pubkeys[i]) # 65 \/ pubkeys[i][1] # 4
    THEN Raise(ValueError, "invalid pubkey size")
    ELSE Ok(_concat(IF lexicographic_sort THEN sorted(pubkeys) ELSE pubkeys))

\* the keys of a p2ms payload
_pubkeys(payload) ==
    [i \in 1..(Len(payload) \div 65) |->
        SubSeq(payload, 65 * (i - 1) + 1, 65 * i)]

\* scriptPubKey_from_payload(script_type, payload, m)
scriptPubKey_from_payload(script_type, payload, m) ==
    LET Sized(sizes, script) ==
            IF Len(payload) \notin sizes
            THEN Raise(ValueError, "invalid payload size")
            ELSE Ok(script_encode(script))
        n == Len(payload) \div 65
    IN  IF script_type = "p2pk"
        THEN Sized({33, 65}, <<Data(payload), Op("OP_CHECKSIG")>>)
        ELSE IF script_type = "p2ms"
        THEN IF Len(payload) % 65 # 0 \/ n \notin 1..16 \/ m \notin 1..n
             THEN Raise(ValueError, "invalid m-of-n")
             ELSE Ok(script_encode(
                      <<OpInt(m)>>
                          \o [i \in 1..n |-> Data(_pubkeys(payload)[i])]
                          \o <<OpInt(n), Op("OP_CHECKMULTISIG")>>))
        ELSE IF script_type = "nulldata"
        THEN Sized(0..80, <<Op("OP_RETURN"), Data(payload)>>)
        ELSE IF script_type = "p2pkh"
        THEN Sized({20}, <<Op("OP_DUP"), Op("OP_HASH160"), Data(payload),
                           Op("OP_EQUALVERIFY"), Op("OP_CHECKSIG")>>)
        ELSE IF script_type = "p2sh"
        THEN Sized({20}, <<Op("OP_HASH160"), Data(payload), Op("OP_EQUAL")>>)
        ELSE IF script_type = "p2wpkh"
        THEN Sized({20}, <<OpInt(0), Data(payload)>>)
        ELSE IF script_type = "p2wsh"
        THEN Sized({32}, <<OpInt(0), Data(payload)>>)
        ELSE Raise(ValueError, "unknown script type")

\* the payload that a constructor derives from its argument: p2pk(pubkey),
\* p2ms(m, pubkeys, lexicographic_sort), nulldata(string), p2pkh(pubkey),
\* p2sh(script), p2wpkh(pubkey), p2wsh(script)
payload_of(script_type, arg, lexicographic_sort) ==
    IF script_type = "p2pk" THEN payload_from_pubkeys(<<arg>>, FALSE)
    ELSE IF script_type = "p2ms"
    THEN payload_from_pubkeys(arg, lexicographic_sort)
    ELSE IF script_type = "nulldata" THEN Ok(str_encode(arg))
    ELSE IF script_type \in {"p2pkh", "p2sh"} THEN Ok(hash160(arg))
    ELSE IF script_type = "p2wpkh"
    THEN IF Len(arg) # 33 THEN Raise(ValueError, "not a compressed pubkey")
         ELSE Ok(hash160(arg))
    ELSE Ok(sha256(arg))

\* the p2ms pattern: m, n pushes of 65 bytes, n, OP_CHECKMULTISIG
_is_p2ms(s) ==
    /\ Len(s) >= 3 /\ s[Len(s)] = 174
    /\ s[1] \in 81..96 /\ s[Len(s) - 1] \in 81..96
    /\ s[1] <= s[Len(s) - 1]
    /\ Len(s) = 3 + 66 * (s[Len(s) - 1] - 80)
    /\ \A i \in 1..(s[Len(s) - 1] - 80) : s[2 + 66 * (i - 1)] = 65

\* payload_from_scriptPubKey(script): type, payload and m of a script given
\* as bytes or as a list of tokens
payload_from_scriptPubKey(script) ==
    LET s == IF "list" \in DOMAIN script THEN script_encode(script.list)
             ELSE script.bytes
        l == Len(s)
    IN  IF l \in {35, 67} /\ s[1] = l - 2 /\ s[l] = 172
        THEN Ok(<<"p2pk", SubSeq(s, 2, l - 1), 0>>)
        ELSE IF _is_p2ms(s)
        THEN Ok(<<"p2ms",
                  _concat([i \in 1..(s[l - 1] - 80) |->
                              SubSeq(s, 3 + 66 * (i - 1), 1 + 66 * i)]),
                  s[1] - 80>>)
        ELSE IF l >= 2 /\ l <= 77 /\ s[1] = 106 /\ s[2] = l - 2
        THEN Ok(<<"nulldata", SubSeq(s, 3, l), 0>>)
        ELSE IF l >= 3 /\ l <= 83 /\ s[1] = 106 /\ s[2] = 76 /\ s[3] = l - 3
        THEN Ok(<<"nulldata", SubSeq(s, 4, l), 0>>)
        ELSE IF l = 25 /\ SubSeq(s, 1, 3) = <<118, 169, 20>>
                /\ SubSeq(s, 24, 25) = <<136, 172>>
        THEN Ok(<<"p2pkh", SubSeq(s, 4, 23), 0>>)
        ELSE IF l = 23 /\ SubSeq(s, 1, 2) = <<169, 20>> /\ s[23] = 135
        THEN Ok(<<"p2sh", SubSeq(s, 3, 22), 0>>)
        ELSE IF l = 22 /\ SubSeq(s, 1, 2) = <<0, 20>>
        THEN Ok(<<"p2wpkh", SubSeq(s, 3, 22), 0>>)
        ELSE IF l = 34 /\ SubSeq(s, 1, 2) = <<0, 32>>
        THEN Ok(<<"p2wsh", SubSeq(s, 3, 34), 0>>)
        ELSE Raise(ValueError, "unknown scriptPubKey")

(***************************************************************************)
(* The scripts a caller builds: keys of 65, 33 and 66 bytes, up to         *)
(* MaxKeys keys in a p2ms and once 17, data up to and beyond 80 bytes.     *)
(***************************************************************************)
MaxKeys == 2

ScriptTypes == {"p2pk", "p2ms", "nulldata", "p2pkh", "p2sh", "p2wpkh", "p2wsh"}

PubKeys ==
    {<<4>> \o [i \in 1..64 |-> 17], <<4>> \o [i \in 1..64 |-> 5],
     <<4>> \o [i \in 1..64 |-> IF i = 64 THEN 4 ELSE 5]}
Compressed == <<3>> \o [i \in 1..32 |-> 174]
OtherKeys == {Compressed, <<4>> \o [i \in 1..65 |-> 17]}

\* test_nulldata2: the lengths around each change of the encoding
DataLengths == {0, 1, 16, 17, 74, 75, 76, 80, 81}

\* the argument of each constructor
ConstructorArgs(script_type) ==
    IF script_type = "p2ms"
    THEN UNION {[1..n -> PubKeys \cup OtherKeys] : n \in 1..MaxKeys}
             \cup {[i \in 1..17 |-> <<4>> \o [k \in 1..64 |-> 17]]}
    ELSE IF script_type = "nulldata"
    THEN {[i \in 1..l |-> 0] : l \in DataLengths}
             \cup {<<97>>, <<97, 233>>, [i \in 1..75 |-> 76]}
    ELSE IF script_type \in {"p2sh", "p2wsh"}
    THEN {<<172>>, <<81>>, <<>>}
    ELSE PubKeys \cup OtherKeys

Payloads ==
    {[i \in 1..l |-> 0] : l \in DataLengths \cup {11, 20, 21, 32, 33}}
        \cup PubKeys \cup OtherKeys
        \cup {k1 \o k2 : k1, k2 \in PubKeys}

\* p2pk(pubkey), p2ms(m, pubkeys, lexicographic_sort), nulldata(string),
\* p2pkh(pubkey), p2sh(script), p2wpkh(pubkey), p2wsh(script)
Construct ==
    /\ call.fn = "init"
    /\ \E script_type \in ScriptTypes, lexicographic_sort \in BOOLEAN,
          m \in 0..(MaxKeys + 1) :
          /\ script_type # "p2ms" => m = 0 /\ ~lexicographic_sort
          /\ \E arg \in ConstructorArgs(script_type) :
                \E payload \in {payload_of(script_type, arg,
                                           lexicographic_sort)} :
                   call' = Call(script_type,
                                [script_type |-> script_type, arg |-> arg,
                                 lexicographic_sort |-> lexicographic_sort,
                                 m |-> m, payload |-> payload.val],
                                IF ~payload.ok THEN payload
                                ELSE scriptPubKey_from_payload(
                                         script_type, payload.val, m))
    /\ UNCHANGED <<curve, prv, pub, hashed, sigs>>

\* scriptPubKey_from_payload(script_type, payload, m)
FromPayload ==
    /\ call.fn = "init"
    /\ \E script_type \in ScriptTypes, payload \in Payloads,
          m \in 0..(MaxKeys + 1) :
          call' = Call("scriptPubKey_from_payload",
                       [script_type |-> script_type, payload |-> payload,
                        m |-> m],
                       scriptPubKey_from_payload(script_type, payload, m))
    /\ UNCHANGED <<curve, prv, pub, hashed, sigs>>

\* payload_from_scriptPubKey of the script just made, as bytes or decoded
PayloadFromScriptPubKey ==
    /\ call.fn \in ScriptTypes \cup {"scriptPubKey_from_payload"}
    /\ call.res.ok
    /\ \E decoded \in BOOLEAN :
          \E tokens \in {script_decode(call.res.val)} :
             call' = Call("payload_from_scriptPubKey",
                          [script_type |-> call.args.script_type,
                           payload |-> call.args.payload, m |-> call.args.m,
                           script |-> call.res.val, decoded |-> decoded],
                          IF ~decoded
                          THEN payload_from_scriptPubKey(Bytes(call.res.val))
                          ELSE IF ~tokens.ok THEN tokens
                          ELSE payload_from_scriptPubKey(List(tokens.val)))
    /\ UNCHANGED <<curve, prv, pub, hashed, sigs>>

\* test_op_pushdata: the lengths around each change of the prefix
PushLengths == {0, 1, 75, 76, 77, 255, 256, 257, 65535, 65536}

\* op_pushdata(data)
OpPushdata ==
    /\ call.fn = "init"
    /\ \E length \in PushLengths, byte \in {0, 76} :
          \E data \in {[i \in 1..length |-> byte]} :
             call' = Call("op_pushdata", [data |-> data],
                          Ok(op_pushdata(data)))
    /\ UNCHANGED <<curve, prv, pub, hashed, sigs>>

ScriptNext ==
    Construct \/ FromPayload \/ PayloadFromScriptPubKey \/ OpPushdata

ScriptSpec == Init /\ [][ScriptNext]_vars

\* C20: for every script made by p2pk, p2pkh, p2sh, p2ms, p2wpkh, p2wsh or
\* nulldata, or by scriptPubKey_from_payload(type, payload, m),
\* payload_from_scriptPubKey returns the same type, the same payload and
\* the same m, 0 for every type but p2ms, whether the script is given as
\* bytes or as the list of its decoded tokens.
C20_ScriptPubKeyRoundTrip ==
    call.fn = "payload_from_scriptPubKey" =>
        call.res = Ok(<<call.args.script_type, call.args.payload,
                        IF call.args.script_type = "p2ms" THEN call.args.m
                        ELSE 0>>)

\* a 2-of-2 p2ms script given decoded, and a nulldata of 80 bytes
C20_Witness ==
    /\ call.fn = "payload_from_scriptPubKey" /\ call.args.decoded
    /\ call.args.script_type = "p2ms" /\ call.args.m = 2
    /\ call.res.ok /\ Len(call.res.val[2]) = 130

C20_WitnessNulldata ==
    /\ call.fn = "payload_from_scriptPubKey"
    /\ call.args.script_type = "nulldata" /\ Len(call.args.payload) = 80
    /\ call.res.ok

\* the pubkeys pushed by a p2ms script, in the order of the script
KeysOfScript(script) ==
    LET tokens == script_decode(script).val
    IN  [i \in 1..(Len(tokens) - 3) |-> tokens[i + 1].data]

\* b holds the elements of a, each as often, in some order
IsPermutation(a, b) ==
    /\ Len(a) = Len(b)
    /\ \E f \in [1..Len(a) -> 1..Len(a)] :
          /\ \A i, j \in 1..Len(a) : f[i] = f[j] => i = j
          /\ \A i \in 1..Len(a) : b[f[i]] = a[i]

IsLexOrdered(keys) ==
    \A i, j \in 1..Len(keys) : i < j => ~LexLess(keys[j], keys[i])

OfP2ms == call.fn = "p2ms"

\* C21: p2ms(m, pubkeys) of n pubkeys makes a script only when
\* 1 <= m <= n <= 16 and every pubkey has a SEC size; it fails with a Value
\* error for m = 0, for m > n, for n = 17 and for a pubkey of 66 bytes; the
\* pubkeys are in the script in lexicographic order when the sort is
\* requested and in the given order otherwise.
C21_P2ms ==
    OfP2ms =>
        LET m == call.args.m
            pubkeys == call.args.arg
            n == Len(pubkeys)
        IN  /\ call.res.ok =>
                  /\ 1 <= m /\ m <= n /\ n <= 16
                  /\ \A i \in 1..n : Len(pubkeys[i]) \in {33, 65}
                  /\ IsPermutation(pubkeys, KeysOfScript(call.res.val))
                  /\ IF call.args.lexicographic_sort
                     THEN IsLexOrdered(KeysOfScript(call.res.val))
                     ELSE KeysOfScript(call.res.val) = pubkeys
            /\ (m = 0 \/ m > n \/ n = 17
                    \/ \E i \in 1..n : Len(pubkeys[i]) = 66)
                  => ~call.res.ok /\ call.res.err = ValueError

\* two keys given in descending order and sorted by the call
C21_Witness ==
    /\ OfP2ms /\ call.res.ok /\ call.args.lexicographic_sort
    /\ Len(call.args.arg) = 2
    /\ KeysOfScript(call.res.val) # call.args.arg

C21_WitnessRejected ==
    /\ OfP2ms /\ ~call.res.ok
    /\ call.args.m = 3 /\ Len(call.args.arg) = 17

\* the length of the prefix of a push of L bytes
PrefixLen(L) == IF L <= 75 THEN 1 ELSE IF L <= 255 THEN 2 ELSE 3

\* C23: op_pushdata(data) emits the shortest push prefix for the length L
\* of the data: 1 byte for L <= 75, 2 bytes (OP_PUSHDATA1) for
\* 76 <= L <= 255, 3 bytes (OP_PUSHDATA2) for 256 <= L <= 65535; the output
\* is the prefix followed by the data, L plus the prefix length long.
C23_ShortestPush ==
    (call.fn = "op_pushdata" /\ Len(call.args.data) <= 65535) =>
        LET L == Len(call.args.data)
            out == call.res.val
        IN  /\ call.res.ok
            /\ Len(out) = L + PrefixLen(L)
            /\ SubSeq(out, PrefixLen(L) + 1, Len(out)) = call.args.data
            /\ IF L <= 75 THEN out[1] = L
               ELSE IF L <= 255 THEN out[1] = 76 /\ out[2] = L
               ELSE out[1] = 77 /\ out[2] + 256 * out[3] = L
                        /\ out[2] < 256 /\ out[3] < 256

C23_Witness ==
    /\ call.fn = "op_pushdata" /\ Len(call.args.data) = 256
    /\ Len(call.res.val) = 259

C23_WitnessPushdata1 ==
    /\ call.fn = "op_pushdata" /\ Len(call.args.data) = 76
    /\ Len(call.res.val) = 78

(***************************************************************************)
(* Addresses (btclib/network.py, base58.py, base58address.py, bech32.py,   *)
(* bech32address.py and the address functions of scriptpubkey.py), from    *)
(* their description and from the calls of test_scriptpubkey.py.  An       *)
(* address is its human-readable part, empty for Base58Check, and its      *)
(* symbols, each the index of a character in the alphabet of the           *)
(* encoding.  The two checksums are digests of what they protect.          *)
(***************************************************************************)
NETWORKS == <<"mainnet", "testnet", "regtest">>
P2PKH_PREFIXES == <<0, 111, 111>>
P2SH_PREFIXES == <<5, 196, 196>>
HRPS == <<"bc", "tb", "bcrt">>

Networks == {NETWORKS[i] : i \in 1..Len(NETWORKS)}

\* list.index(x): the first index of x in list, 0 when there is none
_index(list, x) ==
    IF \E i \in 1..Len(list) : list[i] = x
    THEN CHOOSE i \in 1..Len(list) :
             list[i] = x /\ \A j \in 1..(i - 1) : list[j] # x
    ELSE 0

\* the digits of v div m, v given by its digits in base b, with v mod m
RECURSIVE _divmod_digits(_, _, _, _, _)
_divmod_digits(ds, b, m, quotient, carry) ==
    IF ds = <<>> THEN <<quotient, carry>>
    ELSE _divmod_digits(Tail(ds), b, m,
                        Append(quotient, (carry * b + Head(ds)) \div m),
                        (carry * b + Head(ds)) % m)

\* the digits of v * m + a in base b, from the digits of v
RECURSIVE _muladd_digits(_, _, _, _)
_muladd_digits(ds, b, m, a) ==
    IF ds = <<>>
    THEN IF a = 0 THEN <<>>
         ELSE _muladd_digits(<<>>, b, 1, a \div b) \o <<a % b>>
    ELSE _muladd_digits(SubSeq(ds, 1, Len(ds) - 1), b, m,
                        (ds[Len(ds)] * m + a) \div b)
             \o <<(ds[Len(ds)] * m + a) % b>>

\* the number of zeros that a sequence starts with
LeadingZeros(ds) ==
    Cardinality({i \in 1..Len(ds) : \A j \in 1..i : ds[j] = 0})

\* the base-58 digits of a number given by its bytes, most significant
\* first, none for zero; three digits of base 58 at a time
RECURSIVE _b58digits(_)
_b58digits(v) ==
    IF \A i \in 1..Len(v) : v[i] = 0 THEN <<>>
    ELSE Let(_divmod_digits(v, 256, 58 * 58 * 58, <<>>, 0), LAMBDA qr :
             LET low == <<qr[2] \div (58 * 58), (qr[2] \div 58) % 58,
                          qr[2] % 58>>
             IN  IF \A i \in 1..Len(qr[1]) : qr[1][i] = 0
                 THEN SubSeq(low, LeadingZeros(low) + 1, 3)
                 ELSE _b58digits(qr[1]) \o low)

\* base58.b58encode without the symbols of the leading zero bytes: a
\* plausible slip, used to test C22
_b58encode_unpadded(v) == _b58digits(v)

\* base58.b58encode(v) without checksum: a symbol 0 for each leading zero
\* byte, then the base-58 digits of the number
_b58encode(v) == [i \in 1..LeadingZeros(v) |-> 0] \o _b58digits(v)

\* the bytes of a number given by its base-58 digits, up to three digits
\* at a time
RECURSIVE _b58bytes(_, _)
_b58bytes(symbols, acc) ==
    IF symbols = <<>> THEN acc
    ELSE LET k == IF Len(symbols) % 3 = 0 THEN 3 ELSE Len(symbols) % 3
             a == IF k = 1 THEN symbols[1]
                  ELSE IF k = 2 THEN 58 * symbols[1] + symbols[2]
                  ELSE 58 * 58 * symbols[1] + 58 * symbols[2] + symbols[3]
         IN  Let(_muladd_digits(acc, 256, 58 ^ k, a), LAMBDA next :
                 _b58bytes(SubSeq(symbols, k + 1, Len(symbols)), next))

\* base58.b58decode without checksum
_b58decode(symbols) ==
    [i \in 1..LeadingZeros(symbols) |-> 0]
        \o _b58bytes(SubSeq(symbols, LeadingZeros(symbols) + 1, Len(symbols)),
                     <<>>)

\* utils.hash256
hash256(octets) == _digest(octets, 32)

\* base58.b58encode(v): Base58Check
b58encode(v) == _b58encode(v \o SubSeq(hash256(v), 1, 4))

\* base58.b58decode(symbols): the payload, once the checksum is verified
b58decode(symbols) ==
    Let(_b58decode(symbols), LAMBDA v :
        IF Len(v) < 4 THEN Raise(ValueError, "not enough bytes")
        ELSE IF SubSeq(hash256(SubSeq(v, 1, Len(v) - 4)), 1, 4)
                    # SubSeq(v, Len(v) - 3, Len(v))
        THEN Raise(ValueError, "invalid checksum")
        ELSE Ok(SubSeq(v, 1, Len(v) - 4)))

\* bit i, from 0 and most significant first, of symbols of width bits
_bit(symbols, width, i) ==
    IF i \div width >= Len(symbols) THEN 0
    ELSE (symbols[(i \div width) + 1] \div (2 ^ (width - 1 - (i % width)))) % 2

\* the symbol of tobits bits that starts at bit i
_group(symbols, frombits, tobits, i) ==
    LET f[k \in 0..tobits] ==
            IF k = 0 THEN 0
            ELSE 2 * f[k - 1] + _bit(symbols, frombits, i + k - 1)
    IN  f[tobits]

\* bech32.convertbits(data, frombits, tobits, pad)
convertbits(data, frombits, tobits, pad) ==
    LET bits == frombits * Len(data)
        whole == bits \div tobits
        left == bits % tobits
    IN  IF pad
        THEN Ok([j \in 1..(whole + IF left = 0 THEN 0 ELSE 1) |->
                    _group(data, frombits, tobits, tobits * (j - 1))])
        ELSE IF left >= frombits
                   \/ \E i \in (tobits * whole)..(bits - 1) :
                         _bit(data, frombits, i) # 0
        THEN Raise(ValueError, "invalid padding")
        ELSE Ok([j \in 1..whole |->
                    _group(data, frombits, tobits, tobits * (j - 1))])

\* the 6 symbols of the checksum of a human-readable part and data
_bech32_checksum(hrp, data) ==
    LET seed == _index(HRPS, hrp) + Len(data)
                    + (IF data = <<>> THEN 0
                       ELSE 3 * data[1] + 5 * data[Len(data)])
    IN  [i \in 1..6 |-> (seed + 7 * i) % 32]

\* bech32address.b32address_from_witness(wv, wp, network)
b32address_from_witness(wv, wp, network) ==
    IF wv \notin 0..16 THEN Raise(ValueError, "invalid witness version")
    ELSE LET hrp == HRPS[_index(NETWORKS, network)]
             data == <<wv>> \o convertbits(wp, 8, 5, TRUE).val
         IN  Ok([hrp |-> hrp, symbols |-> data \o _bech32_checksum(hrp, data)])

\* bech32address.witness_from_b32address(address): version, program and
\* network
witness_from_b32address(address) ==
    LET data == SubSeq(address.symbols, 1, Len(address.symbols) - 6)
    IN  IF _index(HRPS, address.hrp) = 0
        THEN Raise(ValueError, "unknown human-readable part")
        ELSE IF Len(address.symbols) < 7
                   \/ SubSeq(address.symbols, Len(address.symbols) - 5,
                             Len(address.symbols))
                        # _bech32_checksum(address.hrp, data)
        THEN Raise(ValueError, "invalid checksum")
        ELSE Let(convertbits(Tail(data), 5, 8, FALSE), LAMBDA wp :
                 IF ~wp.ok THEN wp
                 ELSE Ok(<<data[1], wp.val,
                           NETWORKS[_index(HRPS, address.hrp)]>>))

\* base58address.b58address_from_h160(prefix, h160)
b58address_from_h160(prefix, h160) ==
    Ok([hrp |-> "", symbols |-> b58encode(<<prefix>> \o h160)])

\* address_from_scriptPubKey(scriptPubKey, network)
address_from_scriptPubKey(scriptPubKey, network) ==
    Let(payload_from_scriptPubKey(scriptPubKey), LAMBDA p :
        IF ~p.ok THEN p
        ELSE IF p.val[1] = "p2pkh"
        THEN b58address_from_h160(
                 P2PKH_PREFIXES[_index(NETWORKS, network)], p.val[2])
        ELSE IF p.val[1] = "p2sh"
        THEN b58address_from_h160(
                 P2SH_PREFIXES[_index(NETWORKS, network)], p.val[2])
        ELSE IF p.val[1] \in {"p2wpkh", "p2wsh"}
        THEN b32address_from_witness(0, p.val[2], network)
        ELSE Raise(ValueError, "no address for the script type"))

\* the script and the network of a Base58Check address
_scriptPubKey_from_b58address(address) ==
    Let(b58decode(address.symbols), LAMBDA v :
        IF ~v.ok THEN v
        ELSE IF Len(v.val) # 21 THEN Raise(ValueError, "invalid size")
        ELSE IF _index(P2PKH_PREFIXES, v.val[1]) # 0
        THEN Ok(<<scriptPubKey_from_payload("p2pkh", Tail(v.val), 0).val,
                  NETWORKS[_index(P2PKH_PREFIXES, v.val[1])]>>)
        ELSE IF _index(P2SH_PREFIXES, v.val[1]) # 0
        THEN Ok(<<scriptPubKey_from_payload("p2sh", Tail(v.val), 0).val,
                  NETWORKS[_index(P2SH_PREFIXES, v.val[1])]>>)
        ELSE Raise(ValueError, "invalid prefix"))

\* scriptPubKey_from_address(address): the script and the network
scriptPubKey_from_address(address) ==
    IF address.hrp = "" THEN _scriptPubKey_from_b58address(address)
    ELSE Let(witness_from_b32address(address), LAMBDA w :
             IF ~w.ok THEN w
             ELSE IF w.val[1] # 0
             THEN Raise(ValueError, "unhandled witness version")
             ELSE IF Len(w.val[2]) = 20
             THEN Ok(<<scriptPubKey_from_payload("p2wpkh", w.val[2], 0).val,
                       w.val[3]>>)
             ELSE IF Len(w.val[2]) = 32
             THEN Ok(<<scriptPubKey_from_payload("p2wsh", w.val[2], 0).val,
                       w.val[3]>>)
             ELSE Raise(ValueError, "invalid witness program size"))

\* test_exceptions: scripts of no known type, as tokens and as bytes
UnknownScripts ==
    {List(<<OpInt(16), Data([i \in 1..20 |-> 0])>>),
     Bytes(<<96, 20>> \o [i \in 1..20 |-> 0]),
     Bytes(<<0, 21>> \o [i \in 1..21 |-> 0])}

\* address_from_scriptPubKey(scriptPubKey, network) of the script just made
AddressFromScriptPubKey ==
    /\ call.fn \in ScriptTypes \cup {"scriptPubKey_from_payload"}
    /\ call.res.ok
    /\ \E network \in Networks :
          call' = Call("address_from_scriptPubKey",
                       [script_type |-> call.args.script_type,
                        script |-> Bytes(call.res.val), network |-> network],
                       address_from_scriptPubKey(Bytes(call.res.val), network))
    /\ UNCHANGED <<curve, prv, pub, hashed, sigs>>

\* address_from_scriptPubKey(scriptPubKey, network) of a script of no type
AddressFromUnknownScript ==
    /\ call.fn = "init"
    /\ \E script \in UnknownScripts, network \in Networks :
          call' = Call("address_from_scriptPubKey",
                       [script_type |-> "unknown", script |-> script,
                        network |-> network],
                       address_from_scriptPubKey(script, network))
    /\ UNCHANGED <<curve, prv, pub, hashed, sigs>>

\* b32address_from_witness(wv, wp, network)
B32AddressFromWitness ==
    /\ call.fn = "init"
    /\ \E wv \in {0, 1, 16}, size \in {20, 32}, network \in Networks :
          \E wp \in {[i \in 1..size |-> 0]} :
             call' = Call("b32address_from_witness",
                          [wv |-> wv, wp |-> wp, network |-> network],
                          b32address_from_witness(wv, wp, network))
    /\ UNCHANGED <<curve, prv, pub, hashed, sigs>>

\* scriptPubKey_from_address(address) of the address just made
ScriptPubKeyFromAddress ==
    /\ call.fn \in {"address_from_scriptPubKey", "b32address_from_witness"}
    /\ call.res.ok
    /\ call' = Call("scriptPubKey_from_address",
                    [address |-> call.res.val, of |-> call.args],
                    scriptPubKey_from_address(call.res.val))
    /\ UNCHANGED <<curve, prv, pub, hashed, sigs>>

AddressNext ==
    \/ Construct
    \/ FromPayload
    \/ AddressFromScriptPubKey
    \/ AddressFromUnknownScript
    \/ B32AddressFromWitness
    \/ ScriptPubKeyFromAddress

AddressSpec == Init /\ [][AddressNext]_vars

AddressTypes == {"p2pkh", "p2sh", "p2wpkh", "p2wsh"}

\* scriptPubKey_from_address of the address of a script
OfAddressRoundTrip ==
    call.fn = "scriptPubKey_from_address" /\ "script" \in DOMAIN call.args.of

\* a script of a type without an address, and an address of a witness
\* version other than 0, are refused with a Value error
NoAddress ==
    /\ (call.fn = "address_from_scriptPubKey"
            /\ call.args.script_type \notin AddressTypes)
          => ~call.res.ok /\ call.res.err = ValueError
    /\ (call.fn = "scriptPubKey_from_address"
            /\ "wv" \in DOMAIN call.args.of /\ call.args.of.wv # 0)
          => ~call.res.ok /\ call.res.err = ValueError

C22_WitnessSegwit ==
    /\ OfAddressRoundTrip
    /\ call.args.of.script_type = "p2wsh" /\ call.args.of.network = "regtest"
    /\ call.res.ok /\ call.res.val[2] = "regtest"

C22_WitnessVersion16 ==
    /\ call.fn = "scriptPubKey_from_address" /\ "wv" \in DOMAIN call.args.of
    /\ call.args.of.wv = 16 /\ ~call.res.ok

(***************************************************************************)
(* scripts/EC1_6_F11_G5_9_N13.py: the multiples of G on the curve          *)
(* y^2 = x^3 + x + 6 over the field of 11 elements, G = (5, 9) of order    *)
(* 13.  The EllipticCurve class is imported by the script; its affine      *)
(* addition, doubling and scalar multiplication are modelled here.         *)
(***************************************************************************)
__a == 1
__b == 6
__prime == 11
__G == <<5, 9>>
__order == 13

ec == Curve(__prime, __a, __b, __G, __order, 1)

\* EllipticCurve.tuple_from_point(P): P, once checked to be a point
tuple_from_point(P) ==
    IF P = INF \/ is_on_curve(P, ec) THEN Ok(P)
    ELSE Raise(ValueError, "point is not on curve")

\* a doubling that forgets the coefficient a of the tangent's slope
pointDouble_without_a(P) ==
    IF P = INF \/ P[2] = 0 THEN INF
    ELSE LET lam == ((3 * P[1] * P[1]) * mod_inv(2 * P[2], ec.p)) % ec.p
             x == (lam * lam - 2 * P[1]) % ec.p
         IN  <<x, (lam * (P[1] - x) - P[2]) % ec.p>>

\* EllipticCurve.pointDouble(P): affine doubling, by the tangent at P
pointDouble(P) ==
    IF P = INF \/ P[2] = 0 THEN INF
    ELSE LET lam == ((3 * P[1] * P[1] + ec.a) * mod_inv(2 * P[2], ec.p)) % ec.p
             x == (lam * lam - 2 * P[1]) % ec.p
         IN  <<x, (lam * (P[1] - x) - P[2]) % ec.p>>

\* EllipticCurve.pointAdd(P, Q): affine addition, by the chord through P, Q
pointAdd(P, Q) ==
    IF P = INF THEN Q
    ELSE IF Q = INF THEN P
    ELSE IF P = Q THEN pointDouble(P)
    ELSE IF P[1] = Q[1] THEN INF
    ELSE LET lam == ((Q[2] - P[2]) * mod_inv(Q[1] - P[1], ec.p)) % ec.p
             x == (lam * lam - P[1] - Q[1]) % ec.p
         IN  <<x, (lam * (P[1] - x) - P[2]) % ec.p>>

\* the ladder over the bits of n below 2^bits, from the most significant
\* one: <<R0, R1>> with R1 = R0 + P
RECURSIVE _ladder(_, _, _)
_ladder(n, bits, P) ==
    IF bits = 0 THEN <<INF, P>>
    ELSE Let(_ladder(n \div 2, bits - 1, P), LAMBDA R :
            IF n % 2 = 0
            THEN <<pointDouble(R[1]), pointAdd(R[1], R[2])>>
            ELSE <<pointAdd(R[1], R[2]), pointDouble(R[2])>>)

\* EllipticCurve.pointMultiply(n, P): n*P by a ladder of as many steps as
\* the order has bits, n reduced modulo the order
pointMultiply(n, P) == _ladder(n % ec.n, bit_length(ec.n), P)[1]

\* main(), lines 39-43: the next multiple, and pointMultiply(i) for it
_main(i, P) ==
    Call("main", [i |-> i, P |-> P, multiple |-> pointMultiply(i, ec.G)],
         IF ~tuple_from_point(P).ok THEN tuple_from_point(P)
         ELSE IF P # pointMultiply(i, ec.G) THEN Raise(AssertionError, "")
         ELSE Ok(P))

\* main(), lines 21-25
Main0 ==
    /\ call.fn = "init"
    /\ call' = _main(0, INF)
    /\ UNCHANGED <<curve, prv, pub, hashed, sigs>>

\* main(), lines 27-31
Main1 ==
    /\ call.fn = "main" /\ call.res.ok /\ call.args.i = 0
    /\ call' = _main(1, __G)
    /\ UNCHANGED <<curve, prv, pub, hashed, sigs>>

\* main(), lines 33-37
Main2 ==
    /\ call.fn = "main" /\ call.res.ok /\ call.args.i = 1
    /\ call' = _main(2, pointDouble(call.args.P))
    /\ UNCHANGED <<curve, prv, pub, hashed, sigs>>

\* main(), lines 39-43
MainLoop ==
    /\ call.fn = "main" /\ call.res.ok /\ call.args.i \in 2..(__order - 1)
    /\ call' = _main(call.args.i + 1, pointAdd(call.args.P, __G))
    /\ UNCHANGED <<curve, prv, pub, hashed, sigs>>

\* ec.pointAdd(P, Q) of any two points of the curve
PointAdd ==
    /\ call.fn = "init"
    /\ \E P \in Points(ec), Q \in Points(ec) :
          call' = Call("pointAdd", [P |-> P, Q |-> Q], Ok(pointAdd(P, Q)))
    /\ UNCHANGED <<curve, prv, pub, hashed, sigs>>

\* ec.pointMultiply(n, P) of any point of the curve
PointMultiply ==
    /\ call.fn = "init"
    /\ \E n \in 0..__order, P \in Points(ec) :
          call' = Call("pointMultiply", [n |-> n, P |-> P],
                       Ok(pointMultiply(n, P)))
    /\ UNCHANGED <<curve, prv, pub, hashed, sigs>>

EcNext == Main0 \/ Main1 \/ Main2 \/ MainLoop \/ PointAdd \/ PointMultiply

EcSpec == Init /\ [][EcNext]_vars

\* C24: on the curve y^2 = x^3 + x + 6 over F_11 with G = (5, 9) of order
\* 13, for every i in 0..13 pointMultiply(i) is the point reached by
\* repeated addition (infinity for 0, G for 1, pointDouble(G) for 2, then
\* pointAdd(i*G, G)); each of these points is infinity or satisfies the
\* curve equation, and 13*G is infinity.
C24_Multiples ==
    call.fn = "main" =>
        /\ call.res.ok
        /\ call.args.multiple = call.args.P
        /\ call.args.P = INF \/ is_on_curve(call.args.P, ec)
        /\ call.args.i \in {0, __order} => call.args.P = INF
        /\ call.args.i \in 1..(__order - 1) => call.args.P # INF
        /\ call.args.i = 1 => call.args.P = __G

C24_Witness ==
    /\ call.fn = "main" /\ call.args.i = __order
    /\ call.res = Ok(INF)

C24_WitnessFinite ==
    /\ call.fn = "main" /\ call.args.i = 7
    /\ call.res.ok /\ is_on_curve(call.res.val, ec)

(***************************************************************************)
(* gen_keys: the key pair.                                                 *)
(***************************************************************************)
\* G added to itself, q times in all
RECURSIVE RepeatedG(_, _)
RepeatedG(q, e) ==
    IF q = 0 THEN INF
    ELSE Let(RepeatedG(q - 1, e), LAMBDA T : _add_aff(T, e.G, e))

OfGenKeys == call.fn = "gen_keys"

Recovered == call.fn = "recover_pubkeys" /\ call.res.ok

\* the challenge of the call's message
RecoverC == challenge(call.args.msg, curve, hashed).val

\* verification of (c, (r, s)) under Q, as __recover_pubkeys runs it
VerifiesUnder(Q) ==
    __assert_as_valid(RecoverC, _jac_from_aff(Q), call.args.sig[1],
                      call.args.sig[2], curve).ok

\* C26: for every challenge c in [0, n-1] and every signature (r, s) with
\* r, s in [1, n-1], every point that recover_pubkeys returns is a valid
\* public key: a finite point on the curve, never the point at infinity,
\* under which the verification of (c, (r, s)) succeeds.
C26_RecoveredAreKeys ==
    Recovered =>
        \A Q \in Elems(call.res.val) :
            /\ Q # INF
            /\ is_on_curve(Q, curve)
            /\ VerifiesUnder(Q)

\* every point returned verifies the signature, and is on the curve or is
\* the point at infinity
C26_RecoveredVerify ==
    Recovered =>
        \A Q \in Elems(call.res.val) :
            /\ Q = INF \/ is_on_curve(Q, curve)
            /\ VerifiesUnder(Q)

C26_Witness ==
    /\ Recovered
    /\ Len(call.res.val) = 2
    /\ \A Q \in Elems(call.res.val) : is_on_curve(Q, curve)

(***************************************************************************)
(* The private functions __sign and __assert_as_valid, called as the       *)
(* tests do on the low cardinality curves: every challenge, key and nonce. *)
(***************************************************************************)
\* __sign(c, q, k, low_s, ec)
SignPrivate ==
    /\ call.fn = "init"
    /\ \E c \in 0..(curve.n - 1), q \in Scalars(curve), k \in Scalars(curve),
          low_s \in BOOLEAN :
          call' = Call("__sign", [c |-> c, q |-> q, k |-> k, low_s |-> low_s],
                       __sign(c, q, k, low_s, curve))
    /\ UNCHANGED <<curve, prv, pub, hashed, sigs>>

\* __assert_as_valid(c, QJ, r, s, ec) for the public key Q = q*G
AssertAsValid ==
    /\ call.fn = "init"
    /\ \E c \in 0..(curve.n - 1), q \in Scalars(curve), r \in Scalars(curve),
          s \in Scalars(curve) :
          \E QJ \in {_mult(q, GJ(curve), curve)} :
             call' = Call("__assert_as_valid",
                          [c |-> c, q |-> q, QJ |-> QJ, r |-> r, s |-> s],
                          __assert_as_valid(c, QJ, r, s, curve))
    /\ UNCHANGED <<curve, prv, pub, hashed, sigs>>

PrivateNext == SignPrivate \/ AssertAsValid

PrivateSpec == Init /\ [][PrivateNext]_vars

OfAssertAsValid == call.fn = "__assert_as_valid"

\* K = (c/s)*G + (r/s)*Q of the call for Q = q*G, by repeated addition
VerificationK ==
    LET w == CHOOSE x \in Scalars(curve) : (x * call.args.s) % curve.n = 1
    IN  _add_aff(RepeatedG((call.args.c * w) % curve.n, curve),
                 RepeatedG((call.args.r * w * call.args.q) % curve.n, curve),
                 curve)

\* some nonce k in [1, n-1] has (k*G).x mod n = r and s*k = c + r*q (mod n)
SomeNonce ==
    \E k \in Scalars(curve) :
        /\ RepeatedG(k, curve)[1] % curve.n = call.args.r
        /\ (call.args.s * k) % curve.n
              = (call.args.c + call.args.r * call.args.q) % curve.n

\* C27: on a prime-order curve, for every finite public key Q = q*G with
\* q in [1, n-1], every c in [0, n-1] and every r, s in [1, n-1],
\* __assert_as_valid(c, Q, r, s) succeeds if and only if
\* K = (c/s)*G + (r/s)*Q is finite and K.x mod n = r, which holds exactly
\* when some nonce k in [1, n-1] has (k*G).x mod n = r and
\* s*k = c + r*q (mod n); no other (r, s) is accepted.
C27_ValidIffNonce ==
    (OfAssertAsValid /\ curve.cofactor = 1) =>
        /\ _aff_from_jac(call.args.QJ, curve) = RepeatedG(call.args.q, curve)
        /\ call.args.QJ[3] # 0
        /\ call.res.ok <=>
              (VerificationK # INF /\ VerificationK[1] % curve.n = call.args.r)
        /\ call.res.ok <=> SomeNonce

C27_Witness ==
    /\ OfAssertAsValid /\ curve.cofactor = 1
    /\ call.res.ok /\ SomeNonce

C27_WitnessRejected ==
    /\ OfAssertAsValid /\ curve.cofactor = 1
    /\ ~call.res.ok /\ ~SomeNonce /\ VerificationK # INF

OfSignPrivate == call.fn = "__sign"

\* r = (k*G).x mod n and s = k^-1 * (c + r*q) mod n of the call
PrivateR == RepeatedG(call.args.k, curve)[1] % curve.n
PrivateS ==
    LET k_1 == CHOOSE x \in Scalars(curve) : (x * call.args.k) % curve.n = 1
    IN  (k_1 * (call.args.c + PrivateR * call.args.q)) % curve.n

\* C28: for the same (c, q, k), __sign with low_s = false returns (r, s)
\* with s = k^-1 * (c + r*q) mod n unchanged, and __sign with low_s = true
\* returns the same r with s' = s when s <= n/2 and s' = n - s otherwise;
\* the low-s form never changes r and never takes s' out of [1, n-1].
C28_LowSForm ==
    (OfSignPrivate /\ call.res.ok) =>
        /\ call.res.val[1] = PrivateR
        /\ call.res.val[2] \in Scalars(curve)
        /\ call.res.val[2] =
              IF call.args.low_s /\ 2 * PrivateS > curve.n
              THEN curve.n - PrivateS ELSE PrivateS

\* what holds of the code: r is never changed, s' is s or n - s, in
\* [1, n-1], and s unchanged without low_s
C28_SameR ==
    (OfSignPrivate /\ call.res.ok) =>
        /\ call.res.val[1] = PrivateR
        /\ call.res.val[2] \in Scalars(curve)
        /\ call.res.val[2] \in {PrivateS, curve.n - PrivateS}
        /\ ~call.args.low_s => call.res.val[2] = PrivateS

====
